---- MODULE Spec2Model ----
(***************************************************************************)
(* Voice extraction of shadiflo/demovoice.                                 *)
(*                                                                         *)
(* SpecDecoder : one speaker's conversion job                              *)
(*               (convertAudioDataToWavFilesOptimized / opusToWavOptimized)*)
(*               stepping through its payloads and, for the chunked        *)
(*               format, through the framed records of each payload.       *)
(* SpecRun     : one run of ProcessDemo: parse, processVoiceDataParallel   *)
(*               with its worker pool, and the metadata saved afterwards.  *)
(***************************************************************************)
EXTENDS Integers, Sequences, FiniteSets, TLC

\* ------------------------------------------------------------------ bounds
MaxPayloads == 3
MaxRecsPerChunk == 2
MaxRecords == 3
MaxNearIndex == 3
FarIndex == 11
MaxCPU == 4

\* ------------------------------------------------------- program constants
MaxConceal == 10
SteamFrameSamples == 480
OpusFrameSamples == 1024
PoolBufferCap == 4096

STEAM == "VOICEDATA_FORMAT_STEAM"
OPUS == "VOICEDATA_FORMAT_OPUS"

Min(a, b) == IF a < b THEN a ELSE b

\* ------------------------------------------------------------ wire format
\* One framed record of the chunked format: length = -1 is the end-of-stream
\* marker ("eos"); "overrun" is a record whose declared length exceeds the
\* bytes left in the chunk; "frame" carries frameIndex and a payload.
Frame(i) == [kind |-> "frame", frameIndex |-> i]
EndOfStream == [kind |-> "eos", frameIndex |-> 0]
Overrun == [kind |-> "overrun", frameIndex |-> 0]
FrameIndexes == (0..MaxNearIndex) \cup {FarIndex}
Records == {Frame(i) : i \in FrameIndexes} \cup {EndOfStream, Overrun}

RecordSeqs == UNION {[1..n -> Records] : n \in 0..MaxRecsPerChunk}

\* One RawChunk as delivered by the event feed.  ok = FALSE: the outer packet
\* parser (chunked) or the codec (unchunked) rejects the bytes.
BadPayload == [ok |-> FALSE, data |-> <<>>]
Payloads == {BadPayload} \cup {[ok |-> TRUE, data |-> s] : s \in RecordSeqs}

\* PCM blocks: one block per decoded frame or per concealed frame.
DecodedBlock(i) == [kind |-> "decoded", frameIndex |-> i]
ConcealedBlock == [kind |-> "concealed", frameIndex |-> -1]

\* ------------------------------------------------- Frame Protocol Decoder
\* decodeLoss: min(gap, 10) concealed frames.
ConcealCount_uncapped(gap) == gap
ConcealCount(gap) == Min(gap, MaxConceal)

ConcealedRun(n) == [i \in 1..n |-> ConcealedBlock]

\* expectedFrameIndex after an end-of-stream marker.
ResetFrameIndex_keep(exp) == exp
ResetFrameIndex(exp) == 0

\* The record is the one the decoder waits for.
IsExpected_orStale(idx, exp) == idx <= exp
IsExpected(idx, exp) == idx = exp

\* expectedFrameIndex after the concealment for a record that is ahead.
AfterGap_advance(exp, idx) == idx + 1
AfterGap(exp, idx) == exp

\* One record of OpusDecoder.Decode, from expectedFrameIndex = exp.
DecodeRecord(exp, rec) ==
    IF rec.kind = "eos"
    THEN [exp |-> ResetFrameIndex(exp), out |-> <<>>, stop |-> TRUE,
          err |-> FALSE]
    ELSE IF rec.kind = "overrun"
    THEN [exp |-> exp, out |-> <<>>, stop |-> TRUE, err |-> TRUE]
    ELSE IF IsExpected(rec.frameIndex, exp)
    THEN [exp |-> exp + 1, out |-> <<DecodedBlock(rec.frameIndex)>>,
          stop |-> FALSE, err |-> FALSE]
    ELSE IF rec.frameIndex > exp
    THEN [exp |-> AfterGap(exp, rec.frameIndex),
          out |-> ConcealedRun(ConcealCount(rec.frameIndex - exp)),
          stop |-> FALSE, err |-> FALSE]
    ELSE [exp |-> exp, out |-> <<>>, stop |-> FALSE, err |-> FALSE]

\* ------------------------------------------------------- conversion job
\* The decoder is created once, before the payload loop, and keeps its
\* expectedFrameIndex from one payload to the next.
DecoderForPayload_fresh(exp) == 0
DecoderForPayload(exp) == exp

\* Worker dispatch on the format tag.
JobFunction_swapped(fmt) ==
    IF fmt = OPUS THEN "convertAudioDataToWavFilesOptimized"
    ELSE IF fmt = STEAM THEN "opusToWavOptimized"
    ELSE "none"
JobFunction(fmt) ==
    IF fmt = OPUS THEN "opusToWavOptimized"
    ELSE IF fmt = STEAM THEN "convertAudioDataToWavFilesOptimized"
    ELSE "none"

FrameSamples(fn) ==
    IF fn = "opusToWavOptimized" THEN OpusFrameSamples ELSE SteamFrameSamples

\* cap(o) after the "pre-allocate with estimated capacity" step.
BufferCap(fn, n) ==
    IF PoolBufferCap < n * FrameSamples(fn) THEN n * FrameSamples(fn)
    ELSE PoolBufferCap

\* o = o[:startLen+len(pcm)] is in range.
ResliceInRange(fn, n, startLen, pcmLen) ==
    (startLen + pcmLen) * FrameSamples(fn) <= BufferCap(fn, n)

\* voiceDecoder.Decode(c.Data) as a whole: the records of one chunk, in order.
RECURSIVE DecodeFrames(_, _, _)
DecodeFrames(exp, recs, out) ==
    IF recs = <<>>
    THEN [exp |-> exp, pcm |-> out, err |-> FALSE]
    ELSE LET r == DecodeRecord(exp, Head(recs))
         IN IF r.err THEN [exp |-> r.exp, pcm |-> <<>>, err |-> TRUE]
            ELSE IF r.stop THEN [exp |-> r.exp, pcm |-> out \o r.out, err |-> FALSE]
            ELSE DecodeFrames(r.exp, Tail(recs), out \o r.out)

\* State of a conversion loop: decoder state, sample buffer, and whether the
\* loop ended in a panic or returned an error.
LoopStart == [exp |-> 0, o |-> <<>>, panic |-> FALSE, abort |-> FALSE]

\* What the payload loop does after a chunk whose decoding failed: it logs
\* and continues with the next payload.
OnChunkError_abort(st) == [st EXCEPT !.abort = TRUE]
OnChunkError(st) == st

\* One iteration of the payload loop of convertAudioDataToWavFilesOptimized,
\* n = len(payloads).
ConvertStep(st, p, n) ==
    IF st.panic \/ st.abort THEN st
    ELSE IF ~p.ok THEN OnChunkError(st)
    ELSE IF p.data = <<>> THEN st
    ELSE LET d == DecodeFrames(DecoderForPayload(st.exp), p.data, <<>>)
         IN IF d.err
            THEN OnChunkError([st EXCEPT !.exp = d.exp])
            ELSE IF ~ResliceInRange("convertAudioDataToWavFilesOptimized", n,
                                    Len(st.o), Len(d.pcm))
            THEN [st EXCEPT !.exp = d.exp, !.panic = TRUE]
            ELSE [st EXCEPT !.exp = d.exp, !.o = @ \o d.pcm]

\* One iteration of the payload loop of opusToWavOptimized; the block is
\* tagged with the payload's position i.
OpusStep(st, p, n, i) ==
    IF st.panic \/ st.abort THEN st
    ELSE IF ~p.ok THEN st
    ELSE IF ~ResliceInRange("opusToWavOptimized", n, Len(st.o), 1)
    THEN [st EXCEPT !.panic = TRUE]
    ELSE [st EXCEPT !.o = Append(@, DecodedBlock(i - 1))]

\* for _, payload := range payloads, over payloads[lo..hi] in order (the
\* range is evaluated by halves to keep the evaluation shallow); a panic or
\* a returned error ends the loop.
RECURSIVE LoopOver(_, _, _, _, _)
LoopOver(fn, payloads, lo, hi, st) ==
    IF lo > hi THEN st
    ELSE IF lo = hi
    THEN IF fn = "opusToWavOptimized"
         THEN OpusStep(st, payloads[lo], Len(payloads), lo)
         ELSE ConvertStep(st, payloads[lo], Len(payloads))
    ELSE LET mid == (lo + hi) \div 2
             half == LoopOver(fn, payloads, lo, mid, st)
         IN IF half.panic \/ half.abort THEN half
            ELSE LoopOver(fn, payloads, mid + 1, hi, half)

\* The body of the worker loop for one job, up to the file write: the sample
\* buffer handed to the wav encoder, or a panic, or nothing at all when the
\* format tag is neither of the two known ones.
RunJobFrom(exp, fmt, payloads) ==
    LET fn == JobFunction(fmt)
        start == [LoopStart EXCEPT !.exp = exp]
    IN IF fn = "convertAudioDataToWavFilesOptimized"
       THEN LoopOver(fn, payloads, 1, Len(payloads), start) @@ [writes |-> TRUE]
       ELSE IF fn = "opusToWavOptimized"
       THEN LoopOver(fn, payloads, 1, Len(payloads), start) @@ [writes |-> TRUE]
       ELSE start @@ [writes |-> FALSE]

\* One job on a decoder of its own, just created.
RunJob(fmt, payloads) == RunJobFrom(LoopStart.exp, fmt, payloads)

\* decoder.NewOpusDecoder / decoder.NewDecoder at the start of a conversion
\* function: expectedFrameIndex of the decoder the job works with, `last`
\* being the value the decoder of the job finished before was left with.
JobDecoder_shared(last) == last
JobDecoder(last) == LoopStart.exp

\* numWorkers of processVoiceDataParallel.
NumWorkers_min(cpus, players) == IF players < cpus THEN players ELSE cpus
NumWorkers(cpus, players) ==
    IF players < 3 /\ players > 0 THEN players ELSE cpus

\* Return value of processVoiceDataParallel, given the collected errors.
PipelineResult_failOnError(processingErrors) ==
    IF Len(processingErrors) > 0 THEN "error" ELSE "nil"
PipelineResult(processingErrors) == "nil"

\* A worker goes on with the next job after a job returned an error.
WorkerAfterJob_stopOnError(err) == IF err THEN "exited" ELSE "idle"
WorkerAfterJob(err) == "idle"

VARIABLES
    format,              \* wire-format tag of the job
    numPayloads,         \* len(payloads)
    payloadIdx,          \* payloads consumed by the range loop
    pc,                  \* position of the job
    chunkRest,           \* records of the current chunk not yet read
    chunkOut,            \* output of the running Decode call
    pcm,                 \* pcm returned by the last Decode call
    expectedFrameIndex,  \* FrameSequenceState of the job's decoder
    o,                   \* sample accumulation buffer, in blocks
    fed,                 \* history: records read by the decoder
    emitted,             \* history: blocks returned by the decoder
    decodeCalls,         \* history: calls of "decode frame"
    concealCalls,        \* history: calls of "conceal lost frame"
    \* ---- one run of ProcessDemo
    numCPU,              \* runtime.NumCPU()
    voiceDataPerPlayer,  \* speaker -> payloads, in arrival order
    runPc,               \* position of ProcessDemo and of the handler after it
    toSend,              \* speakers whose job is not yet sent
    jobs,                \* the jobs channel
    jobsClosed,          \* close(jobs) was called
    workers,             \* worker goroutines: state and current job
    errors,              \* the errors channel, one entry per finished job
    outputDir,           \* speaker -> the wav file of this run
    crashed,             \* a goroutine panicked: the process is gone
    executed,            \* history: speaker -> times its job was run
    pvdpResult,          \* return value of processVoiceDataParallel
    metadata,            \* the run's metadata record
    feed,                \* voice messages of the recording, in arrival order
    \* ---- the server: handlers, registries, sweeps
    now,                 \* time.Now(), in ticks
    reqs,                \* request -> position and locals of its handler
    uploadFiles,         \* files of uploadDir: name -> request that wrote it
    uploadedDemos,       \* registry of uploaded recordings: name -> time
    tempFiles,           \* registry of output files: name -> time
    outputFiles,         \* wav files of outputDir
    metadataFiles,       \* json files of outputDir, as metadata records
    \* ---- the buffer pool and the conversion calls that use it
    int32Pool,           \* bufferPool.int32Pool: the slices put back
    calls,               \* conversion call -> position, deferred slice, o
    arrays,              \* backing arrays made by the pool's New: samples written
    \* ---- calls that load, change and save a metadata record
    updaters,            \* function name -> position and the record it loaded
    lookup,              \* a call of FindDemoByMatchID: arguments and results
    \* ---- calls of the functions that work on file names
    nameCall             \* function, its arguments and what it returned

decVars == <<format, numPayloads, payloadIdx, pc, chunkRest, chunkOut, pcm,
             expectedFrameIndex, o, fed, emitted, decodeCalls, concealCalls>>

runVars == <<feed, numCPU, voiceDataPerPlayer, runPc, toSend, jobs, jobsClosed,
             workers, errors, outputDir, crashed, executed, pvdpResult,
             metadata>>

\* State of the single stepping job that a run does not touch.
jobVars == <<numPayloads, payloadIdx, pc, chunkRest, chunkOut, pcm,
             expectedFrameIndex, o, fed, emitted, decodeCalls, concealCalls>>

lifeVars == <<now, reqs, uploadFiles, uploadedDemos, tempFiles, outputFiles,
              metadataFiles>>

poolVars == <<int32Pool, calls, arrays>>

storeVars == <<updaters, lookup>>
nameVars == <<nameCall>>

vars == <<decVars, runVars, lifeVars, poolVars, storeVars, nameVars>>

\* ------------------------------------------------------------- one run
Speakers == {"A", "B", "C"}
Formats == {STEAM, OPUS, "VOICEDATA_FORMAT_ENGINE"}

NoFile == [exists |-> FALSE, blocks |-> <<>>, complete |-> FALSE]
NoMetadata == [status |-> "none", players |-> {}]

\* ---------------------------------------------------------- the server
MaxRequests == 2
MaxTime == 3

\* The clock ticks TicksPerLifetime times in one tempFileLifetime (5 minutes).
TicksPerLifetime == 2

\* tempFileLifetime, in ticks.
tempFileLifetime == TicksPerLifetime

Requests == 1..MaxRequests

\* A file name of uploadDir: the hyphen-separated parts of its stem, and the
\* dot-separated pieces that follow the stem.
FaceitDem ==
    [stem |-> <<"1", "a", "b", "c", "d", "e", "1", "1">>, exts |-> <<"dem">>]
FaceitZst == [stem |-> <<"1", "a", "b", "c", "d", "e">>, exts |-> <<"dem", "zst">>]
UploadNames == {FaceitDem, FaceitZst}

\* The room part of a matchroom URL, split at hyphens.
RoomParts == {<<"1", "a", "b", "c", "d", "e">>}

EmptyString == [stem |-> <<>>, exts |-> <<>>]
NoTime == -1
NoRequest == 0
NoDemoID == <<>>

NewRequest ==
    [pc |-> "new", kind |-> "none", name |-> EmptyString, matchID |-> EmptyString,
     demoID |-> NoDemoID, at |-> NoTime, read |-> NoRequest, players |-> {},
     response |-> "none"]

ServerIdle ==
    /\ now = 0
    /\ reqs = [r \in Requests |-> NewRequest]
    /\ uploadFiles = [n \in {} |-> NoRequest]
    /\ uploadedDemos = [n \in {} |-> NoTime]
    /\ tempFiles = [n \in {} |-> NoTime]
    /\ outputFiles = {}
    /\ metadataFiles = {}

RunIdle ==
    /\ feed = <<>>
    /\ numCPU = 1
    /\ voiceDataPerPlayer = [s \in Speakers |-> <<>>]
    /\ runPc = "off"
    /\ toSend = {}
    /\ jobs = <<>>
    /\ jobsClosed = FALSE
    /\ workers = <<>>
    /\ errors = <<>>
    /\ outputDir = [s \in Speakers |-> NoFile]
    /\ crashed = FALSE
    /\ executed = [s \in Speakers |-> 0]
    /\ pvdpResult = "none"
    /\ metadata = NoMetadata

NoRecord == [DemoID |-> NoDemoID]
NoLookup == [pc |-> "idle", matchID |-> EmptyString, maxAge |-> 0,
             result |-> NoRecord, err |-> FALSE]

StoreIdle == updaters = <<>> /\ lookup = NoLookup

NoNameCall ==
    [fn |-> "none", demoID |-> <<>>, dir |-> {}, left |-> {}, listed |-> {},
     filename |-> <<>>, parts |-> <<>>, suffix |-> <<>>, result |-> <<>>]

NamesIdle == nameCall = NoNameCall

PoolIdle ==
    /\ int32Pool = {}
    /\ calls = <<>>
    /\ arrays = <<>>

DecoderIdle ==
    /\ format = STEAM
    /\ numPayloads = 0
    /\ payloadIdx = 0
    /\ pc = "off"
    /\ chunkRest = <<>>
    /\ chunkOut = <<>>
    /\ pcm = <<>>
    /\ expectedFrameIndex = 0
    /\ o = <<>>
    /\ fed = <<>>
    /\ emitted = <<>>
    /\ decodeCalls = 0
    /\ concealCalls = 0

InitDecoder ==
    /\ format \in {STEAM, OPUS}
    /\ numPayloads \in 1..MaxPayloads
    /\ payloadIdx = 0
    /\ pc = "loop"
    /\ chunkRest = <<>>
    /\ chunkOut = <<>>
    /\ pcm = <<>>
    /\ expectedFrameIndex = 0
    /\ o = <<>>
    /\ fed = <<>>
    /\ emitted = <<>>
    /\ decodeCalls = 0
    /\ concealCalls = 0
    /\ RunIdle
    /\ ServerIdle
    /\ PoolIdle
    /\ StoreIdle
    /\ NamesIdle

\* Loop head of convertAudioDataToWavFilesOptimized: DecodeChunk(payload).
SteamNextPayload ==
    /\ pc = "loop"
    /\ JobFunction(format) = "convertAudioDataToWavFilesOptimized"
    /\ payloadIdx < numPayloads
    /\ \E p \in Payloads :
         /\ Len(fed) + Len(p.data) <= MaxRecords
         /\ payloadIdx' = payloadIdx + 1
         /\ IF p.ok /\ Len(p.data) > 0
            THEN /\ pc' = "records"
                 /\ chunkRest' = p.data
                 /\ expectedFrameIndex' = DecoderForPayload(expectedFrameIndex)
            ELSE /\ pc' = IF ~p.ok /\ OnChunkError(LoopStart).abort
                         THEN "failed" ELSE "loop"
                 /\ UNCHANGED <<chunkRest, expectedFrameIndex>>
    /\ chunkOut' = <<>>
    /\ UNCHANGED <<format, numPayloads, pcm, o, fed, emitted, decodeCalls,
                   concealCalls>>
    /\ UNCHANGED <<runVars, lifeVars, poolVars, storeVars, nameVars>>

\* One record inside voiceDecoder.Decode(c.Data).
DecodeNextRecord ==
    /\ pc = "records"
    /\ chunkRest # <<>>
    /\ LET rec == Head(chunkRest)
           r == DecodeRecord(expectedFrameIndex, rec)
           rest == IF r.stop THEN <<>> ELSE Tail(chunkRest)
           out == chunkOut \o r.out
           nDec == Cardinality({i \in 1..Len(r.out) : r.out[i].kind = "decoded"})
       IN /\ expectedFrameIndex' = r.exp
          /\ chunkRest' = rest
          /\ fed' = Append(fed, [rec |-> rec, before |-> expectedFrameIndex,
                                 after |-> r.exp, out |-> r.out,
                                 rest |-> rest, err |-> r.err,
                                 skipped |-> Len(chunkRest) - 1 - Len(rest)])
          /\ decodeCalls' = decodeCalls + nDec
          /\ concealCalls' = concealCalls + (Len(r.out) - nDec)
          /\ IF r.err
             THEN \* "Error decoding PCM": the chunk's output is dropped
                  /\ pc' = IF OnChunkError(LoopStart).abort THEN "failed" ELSE "loop"
                  /\ chunkOut' = <<>>
                  /\ UNCHANGED <<pcm, emitted>>
             ELSE IF rest = <<>>
             THEN \* Decode returns its output
                  /\ pc' = "append"
                  /\ pcm' = out
                  /\ emitted' = emitted \o out
                  /\ chunkOut' = <<>>
             ELSE /\ pc' = "records"
                  /\ chunkOut' = out
                  /\ UNCHANGED <<pcm, emitted>>
    /\ UNCHANGED <<format, numPayloads, payloadIdx, o>>
    /\ UNCHANGED <<runVars, lifeVars, poolVars, storeVars, nameVars>>

\* "Convert in-place": o = o[:startLen+len(pcm)], then the copy.
AppendPcm ==
    /\ pc = "append"
    /\ IF ResliceInRange(JobFunction(format), numPayloads, Len(o), Len(pcm))
       THEN /\ o' = o \o pcm
            /\ pc' = "loop"
       ELSE /\ pc' = "panic"
            /\ UNCHANGED o
    /\ pcm' = <<>>
    /\ UNCHANGED <<format, numPayloads, payloadIdx, chunkRest, chunkOut,
                   expectedFrameIndex, fed, emitted, decodeCalls, concealCalls>>
    /\ UNCHANGED <<runVars, lifeVars, poolVars, storeVars, nameVars>>

\* One iteration of opusToWavOptimized: decoder.Decode(opusDecoder, d).
OpusNextPayload ==
    /\ pc = "loop"
    /\ JobFunction(format) = "opusToWavOptimized"
    /\ payloadIdx < numPayloads
    /\ \E p \in Payloads :
         /\ payloadIdx' = payloadIdx + 1
         /\ decodeCalls' = decodeCalls + 1
         /\ IF p.ok
            THEN /\ pc' = "append"
                 /\ pcm' = <<DecodedBlock(payloadIdx)>>
                 /\ emitted' = Append(emitted, DecodedBlock(payloadIdx))
            ELSE /\ pc' = "loop"
                 /\ UNCHANGED <<pcm, emitted>>
    /\ UNCHANGED <<format, numPayloads, chunkRest, chunkOut, expectedFrameIndex,
                   o, fed, concealCalls>>
    /\ UNCHANGED <<runVars, lifeVars, poolVars, storeVars, nameVars>>

\* os.Create + wav encoder write, after the loop.
WriteWav ==
    /\ pc = "loop"
    /\ payloadIdx = numPayloads
    /\ \E outcome \in {"written", "failed"} : pc' = outcome
    /\ UNCHANGED <<format, numPayloads, payloadIdx, chunkRest, chunkOut, pcm,
                   expectedFrameIndex, o, fed, emitted, decodeCalls,
                   concealCalls>>
    /\ UNCHANGED <<runVars, lifeVars, poolVars, storeVars, nameVars>>

NextDecoder ==
    \/ SteamNextPayload
    \/ DecodeNextRecord
    \/ AppendPcm
    \/ OpusNextPayload
    \/ WriteWav

SpecDecoder == InitDecoder /\ [][NextDecoder]_vars

\* ------------------------------------------------------------------------
\* Properties of the Frame Protocol Decoder and the conversion job
\* (checked under SpecDecoder).
\* ------------------------------------------------------------------------
FedRecs == [i \in 1..Len(fed) |-> fed[i].rec]

SequentialFromZero(s) == \A i \in 1..Len(s) : s[i] = Frame(i - 1)

IsConcealedRun(s, n) ==
    /\ Len(s) = n
    /\ \A i \in 1..Len(s) : s[i].kind = "concealed"

NumConcealed(s) == Cardinality({i \in 1..Len(s) : s[i].kind = "concealed"})

\* C1: for a chunked record sequence whose frameIndex values are 0, 1, 2, ...
\* the decoder emits exactly one decoded block per record, in order, never
\* conceals, and expectedFrameIndex equals the number of records.
C1_SequentialOneBlockPerRecord ==
    (format = STEAM /\ SequentialFromZero(FedRecs)) =>
        /\ emitted \o chunkOut = [i \in 1..Len(fed) |-> DecodedBlock(i - 1)]
        /\ concealCalls = 0
        /\ decodeCalls = Len(fed)
        /\ expectedFrameIndex = Len(fed)

C1_Witness ==
    /\ format = STEAM
    /\ pc = "written"
    /\ Len(fed) = 3
    /\ payloadIdx >= 2
    /\ SequentialFromZero(FedRecs)
    /\ Len(emitted) = 3

\* The records are 0..k-1 followed by k+g, k+g+1, ...: one gap of g frames.
SingleGap(s, k, g) ==
    /\ Len(s) > k
    /\ \A i \in 1..Len(s) : s[i] = Frame(IF i <= k THEN i - 1 ELSE i - 1 + g)

\* C2: with a single gap of g frames (1 <= g <= 10) after k real frames, the
\* output holds exactly g concealed blocks, between the decoded block of frame
\* k-1 and the decoded block of frame k+g.
C2_SingleGapConcealedOnce ==
    \A k \in 1..MaxRecords : \A g \in 1..MaxConceal :
        (format = STEAM /\ pc = "written" /\ SingleGap(FedRecs, k, g)) =>
            /\ NumConcealed(emitted) = g
            /\ emitted = [i \in 1..(Len(fed) + g) |->
                            IF i > k /\ i <= k + g THEN ConcealedBlock
                            ELSE DecodedBlock(i - 1)]

\* C3: a record whose frameIndex is more than 10 ahead of expectedFrameIndex
\* gets exactly 10 concealed blocks.
C3_ConcealmentCapped ==
    \A i \in 1..Len(fed) :
        (fed[i].rec.kind = "frame" /\ fed[i].rec.frameIndex - fed[i].before > 10)
            => IsConcealedRun(fed[i].out, 10)

C3_Witness ==
    \E i \in 1..Len(fed) :
        /\ fed[i].rec.kind = "frame"
        /\ fed[i].rec.frameIndex - fed[i].before > 10
        /\ Len(fed[i].out) = 10

\* C4: an end-of-stream marker sets expectedFrameIndex to 0 and ends the
\* chunk; the next record, if its frameIndex is 0, is decoded as a normal
\* frame whatever expectedFrameIndex was before the marker.
C4_EndOfStreamResets ==
    \A i \in 1..Len(fed) :
        fed[i].rec.kind = "eos" =>
            /\ fed[i].after = 0
            /\ fed[i].rest = <<>>
            /\ fed[i].out = <<>>
            /\ (i < Len(fed) /\ fed[i + 1].rec = Frame(0)) =>
                   /\ fed[i + 1].out = <<DecodedBlock(0)>>
                   /\ fed[i + 1].after = 1

C4_Witness ==
    \E i \in 1..Len(fed) :
        /\ fed[i].rec.kind = "eos"
        /\ fed[i].before > 0
        /\ fed[i].skipped > 0
        /\ i < Len(fed)
        /\ fed[i + 1].rec = Frame(0)
        /\ fed[i + 1].out = <<DecodedBlock(0)>>

\* C5: a record whose frameIndex is below expectedFrameIndex yields no block
\* and leaves expectedFrameIndex as it was.
C5_StaleRecordDiscarded ==
    \A i \in 1..Len(fed) :
        (fed[i].rec.kind = "frame" /\ fed[i].rec.frameIndex < fed[i].before) =>
            /\ fed[i].out = <<>>
            /\ fed[i].after = fed[i].before
            /\ ~fed[i].err

C5_Witness ==
    \E i \in 1..Len(fed) :
        /\ fed[i].rec.kind = "frame"
        /\ fed[i].rec.frameIndex < fed[i].before
        /\ fed[i].out = <<>>

\* C6: under the unchunked format "decode frame" is called once per RawChunk
\* and "conceal lost frame" is never called.
C6_UnchunkedNeverConceals ==
    format = OPUS =>
        /\ concealCalls = 0
        /\ decodeCalls = payloadIdx
        /\ \A i \in 1..Len(emitted) : emitted[i].kind = "decoded"

C6_Witness ==
    /\ format = OPUS
    /\ pc = "written"
    /\ payloadIdx = 3
    /\ decodeCalls = 3
    /\ Len(o) = 2

\* ------------------------------------------------------------------------
\* One run: ProcessDemo, processVoiceDataParallel, SaveMetadata.
\* ------------------------------------------------------------------------
Payload(recs) == [ok |-> TRUE, data |-> recs]

\* One record per payload, with the given frame indexes.
OneFramePayloads(idxs) == [i \in 1..Len(idxs) |-> Payload(<<Frame(idxs[i])>>)]

\* What the event feed may have collected for one speaker.
NoChunks == <<>>
Sequential == OneFramePayloads(<<0, 1, 2>>)
Gapped == OneFramePayloads(<<0, 2, 3>>)
Malformed ==
    <<BadPayload, Payload(<<Frame(0)>>), Payload(<<Frame(1), Overrun>>),
      Payload(<<Frame(2)>>)>>
FarAhead == OneFramePayloads(<<0, FarIndex>>)

PayloadLists == {NoChunks, Sequential, Gapped, Malformed, FarAhead}

\* Speaker A: 100 sequential frames; B: 50 frames, frames 20..22 lost; C: none.
ScenarioThreeSpeakers ==
    [s \in Speakers |->
        IF s = "A" THEN OneFramePayloads([i \in 1..100 |-> i - 1])
        ELSE IF s = "B"
        THEN OneFramePayloads([i \in 1..50 |-> IF i <= 20 THEN i - 1 ELSE i + 2])
        ELSE <<>>]

FeedResults ==
    {f \in [Speakers -> PayloadLists] : f["C"] \in {NoChunks, Sequential}}
        \cup {ScenarioThreeSpeakers}

\* One CSVCMsg_VoiceData message: the speaker and m.Audio.VoiceData.
VoiceData(s, chunk) == [speaker |-> s, chunk |-> chunk]
EmptyChunk == Payload(<<>>)

\* The messages of one speaker, for the chunks of the list in order.
MessagesOf(s, list) == [i \in 1..Len(list) |-> VoiceData(s, list[i])]

\* A recording in which each speaker talks in turn.
Grouped(d) ==
    MessagesOf("A", d["A"]) \o MessagesOf("B", d["B"]) \o MessagesOf("C", d["C"])

\* A recording in which the speakers talk at the same time: the i-th chunks
\* of C, B and A follow each other, after one empty chunk of each speaker.
RECURSIVE Rounds(_, _)
Rounds(d, i) ==
    IF \A s \in Speakers : i > Len(d[s]) THEN <<>>
    ELSE (IF i <= Len(d["C"]) THEN <<VoiceData("C", d["C"][i])>> ELSE <<>>)
         \o (IF i <= Len(d["B"]) THEN <<VoiceData("B", d["B"][i])>> ELSE <<>>)
         \o (IF i <= Len(d["A"]) THEN <<VoiceData("A", d["A"][i])>> ELSE <<>>)
         \o Rounds(d, i + 1)
Interleaved(d) ==
    <<VoiceData("A", EmptyChunk), VoiceData("B", EmptyChunk),
      VoiceData("C", EmptyChunk)>> \o Rounds(d, 1)

\* The recordings a run may be given.
OverlappingTalk ==
    {d \in FeedResults : d["A"] = Sequential /\ d["B"] \in {NoChunks, Gapped, Malformed}
                            /\ d # ScenarioThreeSpeakers}
Feeds == {Grouped(d) : d \in FeedResults} \cup {Interleaved(d) : d \in OverlappingTalk}

\* append(voiceDataPerPlayer[steamId], m.Audio.VoiceData)
AppendVoiceData_prepend(buffer, chunk) == <<chunk>> \o buffer
AppendVoiceData(buffer, chunk) == Append(buffer, chunk)

\* The voice data handler of ProcessDemo for one message.
OnVoiceData(buffers, m) ==
    IF m.chunk = EmptyChunk THEN buffers
    ELSE [buffers EXCEPT ![m.speaker] = AppendVoiceData(@, m.chunk)]

\* parser.ParseToEnd: the handler runs for the messages msgs[lo..hi] in order
\* (the range is evaluated by halves, the buffers of the first half being
\* computed before the second half starts, to keep the evaluation shallow).
RECURSIVE ParseToEnd(_, _, _, _)
ParseToEnd(msgs, lo, hi, buffers) ==
    IF lo > hi THEN buffers
    ELSE IF lo = hi THEN OnVoiceData(buffers, msgs[lo])
    ELSE LET mid == (lo + hi) \div 2
             half == ParseToEnd(msgs, lo, mid, buffers)
         IN IF DOMAIN half = Speakers
            THEN ParseToEnd(msgs, mid + 1, hi, half)
            ELSE half

\* filteredPlayers of ProcessDemo.
FilteredPlayers_all(data) == Speakers
FilteredPlayers(data) == {s \in Speakers : Len(data[s]) > 0}

InitRun ==
    /\ DecoderIdle
    /\ ServerIdle
    /\ PoolIdle
    /\ StoreIdle
    /\ NamesIdle
    /\ feed = <<>>
    /\ numCPU \in 1..MaxCPU
    /\ voiceDataPerPlayer = [s \in Speakers |-> <<>>]
    /\ runPc = "parse"
    /\ toSend = {}
    /\ jobs = <<>>
    /\ jobsClosed = FALSE
    /\ workers = <<>>
    /\ errors = <<>>
    /\ outputDir = [s \in Speakers |-> NoFile]
    /\ crashed = FALSE
    /\ executed = [s \in Speakers |-> 0]
    /\ pvdpResult = "none"
    /\ metadata = NoMetadata

\* ProcessDemo up to the call of processVoiceDataParallel: open, read and
\* parse the recording (the voice handler fills voiceDataPerPlayer), clean
\* up old files of this demoID, filter the speakers.
ParseDemo ==
    /\ runPc = "parse"
    /\ ~crashed
    /\ \/ /\ runPc' = "failed"
          /\ UNCHANGED <<feed, voiceDataPerPlayer, format, outputDir>>
       \/ \E msgs \in Feeds, fmt \in Formats :
            LET data == ParseToEnd(msgs, 1, Len(msgs), [s \in Speakers |-> <<>>])
            IN
            /\ feed' = msgs
            /\ voiceDataPerPlayer' = data
            /\ format' = fmt
            /\ outputDir' = [s \in Speakers |-> NoFile]
            /\ runPc' = IF FilteredPlayers(data) = {} THEN "processed" ELSE "start"
    /\ UNCHANGED <<numCPU, toSend, jobs, jobsClosed, workers, errors, crashed,
                   executed, pvdpResult, metadata>>
    /\ UNCHANGED <<jobVars, lifeVars, poolVars, storeVars, nameVars>>

\* processVoiceDataParallel: size the pool, make the channels, start workers.
StartWorkers ==
    /\ runPc = "start"
    /\ ~crashed
    /\ LET n == Cardinality(FilteredPlayers(voiceDataPerPlayer))
       IN workers' = [w \in 1..NumWorkers(numCPU, n) |->
                         [state |-> "idle", job |-> "none"]]
    /\ toSend' = FilteredPlayers(voiceDataPerPlayer)
    /\ jobs' = <<>>
    /\ jobsClosed' = FALSE
    /\ errors' = <<>>
    /\ runPc' = "sending"
    /\ UNCHANGED <<feed, numCPU, voiceDataPerPlayer, format, outputDir, crashed,
                   executed, pvdpResult, metadata>>
    /\ UNCHANGED <<jobVars, lifeVars, poolVars, storeVars, nameVars>>

\* jobs <- VoiceProcessingJob{...}, in map iteration order.
SendJob ==
    /\ runPc = "sending"
    /\ ~crashed
    /\ \E s \in toSend :
         /\ Len(jobs) < Cardinality(FilteredPlayers(voiceDataPerPlayer))
         /\ jobs' = Append(jobs, s)
         /\ toSend' = toSend \ {s}
    /\ UNCHANGED <<feed, numCPU, voiceDataPerPlayer, format, runPc, jobsClosed, workers,
                   errors, outputDir, crashed, executed, pvdpResult, metadata>>
    /\ UNCHANGED <<jobVars, lifeVars, poolVars, storeVars, nameVars>>

CloseJobs ==
    /\ runPc = "sending"
    /\ ~crashed
    /\ toSend = {}
    /\ jobsClosed' = TRUE
    /\ runPc' = "waiting"
    /\ UNCHANGED <<feed, numCPU, voiceDataPerPlayer, format, toSend, jobs, workers,
                   errors, outputDir, crashed, executed, pvdpResult, metadata>>
    /\ UNCHANGED <<jobVars, lifeVars, poolVars, storeVars, nameVars>>

\* The channel after a receive: the received job is gone from it.
Dequeue_peek(q) == q
Dequeue(q) == Tail(q)

\* for job := range jobs
WorkerTake(w) ==
    /\ ~crashed
    /\ workers[w].state = "idle"
    /\ jobs # <<>>
    /\ workers' = [workers EXCEPT ![w] = [state |-> "busy", job |-> Head(jobs)]]
    /\ jobs' = Dequeue(jobs)
    /\ UNCHANGED <<feed, numCPU, voiceDataPerPlayer, format, runPc, toSend, jobsClosed,
                   errors, outputDir, crashed, executed, pvdpResult, metadata>>
    /\ UNCHANGED <<jobVars, lifeVars, poolVars, storeVars, nameVars>>

\* expectedFrameIndex left in the decoder of the job that finished last.
LastDecoderState ==
    IF errors = <<>> THEN LoopStart.exp
    ELSE RunJob(format, voiceDataPerPlayer[errors[Len(errors)].player]).exp

\* The conversion function of the job, its file write, and errors <- err.
WorkerFinish(w) ==
    /\ ~crashed
    /\ workers[w].state = "busy"
    /\ LET s == workers[w].job
           r == RunJobFrom(JobDecoder(LastDecoderState), format, voiceDataPerPlayer[s])
       IN /\ executed' = [executed EXCEPT ![s] = @ + 1]
          /\ IF r.panic
             THEN /\ crashed' = TRUE
                  /\ UNCHANGED <<workers, errors, outputDir>>
             ELSE /\ UNCHANGED crashed
                  /\ \E fs \in {"nil", "create", "write"} :
                       LET cause == IF r.abort THEN "abort"
                                    ELSE IF r.writes THEN fs ELSE "nil"
                       IN /\ Len(errors) < Cardinality(FilteredPlayers(voiceDataPerPlayer))
                          /\ ~r.writes => fs = "nil"
                          /\ r.abort => fs = "nil"
                          /\ outputDir' =
                               IF r.abort \/ ~r.writes \/ fs = "create"
                               THEN outputDir
                               ELSE [outputDir EXCEPT ![s] =
                                       [exists |-> TRUE,
                                        blocks |-> IF fs = "nil" THEN r.o ELSE <<>>,
                                        complete |-> fs = "nil"]]
                          /\ errors' = Append(errors, [player |-> s,
                                                       err |-> cause # "nil",
                                                       cause |-> cause])
                          /\ workers' = [workers EXCEPT ![w] =
                                           [state |-> WorkerAfterJob(cause # "nil"),
                                            job |-> "none"]]
    /\ UNCHANGED <<feed, numCPU, voiceDataPerPlayer, format, runPc, toSend, jobs,
                   jobsClosed, pvdpResult, metadata>>
    /\ UNCHANGED <<jobVars, lifeVars, poolVars, storeVars, nameVars>>

\* The range loop ends: the channel is closed and drained; wg.Done().
WorkerExit(w) ==
    /\ ~crashed
    /\ workers[w].state = "idle"
    /\ jobs = <<>>
    /\ jobsClosed
    /\ workers' = [workers EXCEPT ![w] = [state |-> "exited", job |-> "none"]]
    /\ UNCHANGED <<feed, numCPU, voiceDataPerPlayer, format, runPc, toSend, jobs,
                   jobsClosed, errors, outputDir, crashed, executed, pvdpResult,
                   metadata>>
    /\ UNCHANGED <<jobVars, lifeVars, poolVars, storeVars, nameVars>>

ProcessingErrors == SelectSeq(errors, LAMBDA e : e.err)

\* wg.Wait(), close(errors), collect, return.
WaitAndCollect ==
    /\ runPc = "waiting"
    /\ ~crashed
    /\ \A w \in DOMAIN workers : workers[w].state = "exited"
    /\ pvdpResult' = PipelineResult(ProcessingErrors)
    /\ runPc' = IF PipelineResult(ProcessingErrors) = "nil" THEN "processed"
                ELSE "failed"
    /\ UNCHANGED <<feed, numCPU, voiceDataPerPlayer, format, toSend, jobs, jobsClosed,
                   workers, errors, outputDir, crashed, executed, metadata>>
    /\ UNCHANGED <<jobVars, lifeVars, poolVars, storeVars, nameVars>>

\* The files SaveMetadata finds for the run: names holding "_<demoID>.wav".
ArtifactsOf(dir) == {s \in Speakers : dir[s].exists}

\* The handler after ProcessDemo returned nil: SaveMetadata.
SaveRunMetadata ==
    /\ runPc = "processed"
    /\ ~crashed
    /\ \/ metadata' = [status |-> "completed", players |-> ArtifactsOf(outputDir)]
       \/ UNCHANGED metadata
    /\ runPc' = "done"
    /\ UNCHANGED <<feed, numCPU, voiceDataPerPlayer, format, toSend, jobs, jobsClosed,
                   workers, errors, outputDir, crashed, executed, pvdpResult>>
    /\ UNCHANGED <<jobVars, lifeVars, poolVars, storeVars, nameVars>>

NextRun ==
    \/ ParseDemo
    \/ StartWorkers
    \/ SendJob
    \/ CloseJobs
    \/ \E w \in DOMAIN workers : WorkerTake(w)
    \/ \E w \in DOMAIN workers : WorkerFinish(w)
    \/ \E w \in DOMAIN workers : WorkerExit(w)
    \/ WaitAndCollect
    \/ SaveRunMetadata

SpecRun == InitRun /\ [][NextRun]_vars

\* ------------------------------------------------------------------------
\* Properties of one run.
\* ------------------------------------------------------------------------
RunCompleted == runPc = "done" /\ metadata # NoMetadata /\ metadata.status = "completed"

NoStorageFailure == \A i \in 1..Len(errors) : errors[i].cause \notin {"create", "write"}

\* C7: in a chunked-format run where A has 100 sequential frames, B has 50
\* frames with frames 20..22 lost and C has no chunks, no job fails, and the
\* completed run lists exactly the artifacts of A and B, B's artifact
\* holding 53 blocks (50 decoded and 3 concealed).
C7_ThreeSpeakerScenario ==
    (format = STEAM /\ voiceDataPerPlayer = ScenarioThreeSpeakers) =>
        /\ ~crashed
        /\ (RunCompleted /\ NoStorageFailure) =>
              /\ metadata.players = {"A", "B"}
              /\ Len(outputDir["A"].blocks) = 100
              /\ Len(outputDir["B"].blocks) = 53
              /\ NumConcealed(outputDir["B"].blocks) = 3

\* A payload list holds a record whose declared length overruns its chunk.
HasMalformed(list) ==
    \E i \in 1..Len(list) :
        list[i].ok /\ \E j \in 1..Len(list[i].data) : list[i].data[j] = Overrun

MalformedSpeakers == {s \in Speakers : HasMalformed(voiceDataPerPlayer[s])}

JobErrorsOf(s) == {i \in 1..Len(errors) : errors[i].player = s /\ errors[i].err}

C9_ErrorsNeverAbortSiblings ==
    /\ runPc \in {"processed", "done"} =>
          /\ \A s \in FilteredPlayers(voiceDataPerPlayer) : executed[s] = 1
          /\ Len(errors) = Cardinality(FilteredPlayers(voiceDataPerPlayer))
          /\ FilteredPlayers(voiceDataPerPlayer) # {} => pvdpResult = "nil"
    /\ runPc = "failed" =>
          /\ \A s \in Speakers : executed[s] = 0
          /\ errors = <<>>

C9_Witness ==
    /\ runPc = "done"
    /\ RunCompleted
    /\ Cardinality(FilteredPlayers(voiceDataPerPlayer)) = 3
    /\ errors[1].err
    /\ ~errors[2].err
    /\ errors[3].err
    /\ \A s \in Speakers : executed[s] = 1
    /\ pvdpResult = "nil"

\* ------------------------------------------------------------------------
\* The server: upload and download handlers, registries, sweeps.
\* ------------------------------------------------------------------------
\* Names of outputDir are sequences of underscore-separated parts, each part
\* a sequence of dot-separated pieces: "A_demo_3.wav" is
\* <<<<"A">>, <<"demo">>, <<"3", "wav">>>>.
Underscore(a, b) == a \o b

Dot(a, piece) == [a EXCEPT ![Len(a)] = Append(@, piece)]

\* fmt.Sprintf("demo_%d", time.Now().UnixNano())
DemoID(t) == <<<<"demo">>, <<ToString(t)>>>>

\* fmt.Sprintf("%s_%s.wav", playerId, demoID)
WavPath(playerId, demoID) == Dot(Underscore(<<<<playerId>>>>, demoID), "wav")

JsonPath(demoID) == Dot(demoID, "json")

IsPrefix(p, q) == Len(p) <= Len(q) /\ SubSeq(q, 1, Len(p)) = p

\* strings.HasSuffix(filename, ".wav")
HasSuffixWav(filename) ==
    /\ filename # <<>>
    /\ LET last == filename[Len(filename)]
       IN Len(last) >= 2 /\ last[Len(last)] = "wav"

\* strings.Contains(name, "_"+demoID+".wav"), for a demoID "demo_<n>".
ContainsDemoWav(name, demoID) ==
    /\ Len(demoID) = 2
    /\ \E i \in 2..(Len(name) - 1) :
         /\ name[i] = demoID[1]
         /\ IsPrefix(Append(demoID[2], "wav"), name[i + 1])

\* extractDemoIDFromFilename
extractDemoIDFromFilename(filename) ==
    LET hits == {i \in 1..Len(filename) :
                    filename[i] = <<"demo">> /\ i + 1 <= Len(filename)}
    IN IF Len(filename) >= 3 /\ hits # {}
       THEN LET i == CHOOSE j \in hits : \A k \in hits : j <= k
            IN <<<<"demo">>, filename[i + 1]>>
       ELSE <<>>

TrimSuffix(exts, suffix) ==
    IF Len(exts) >= Len(suffix)
       /\ SubSeq(exts, Len(exts) - Len(suffix) + 1, Len(exts)) = suffix
    THEN SubSeq(exts, 1, Len(exts) - Len(suffix))
    ELSE exts

\* ExtractMatchIDFromFilename
ExtractMatchIDFromFilename(filename) ==
    LET rest == TrimSuffix(TrimSuffix(filename.exts, <<"dem", "zst">>), <<"dem">>)
    IN IF Len(filename.stem) >= 6
       THEN [stem |-> SubSeq(filename.stem, 1, 6),
             exts |-> IF Len(filename.stem) = 6 THEN rest ELSE <<>>]
       ELSE EmptyString

\* extractMatchIDFromURL, applied to the room part of the URL.
extractMatchIDFromURL(roomPart) ==
    IF Len(roomPart) >= 2 /\ roomPart[1] = "1"
    THEN [stem |-> Tail(roomPart), exts |-> <<>>]
    ELSE [stem |-> roomPart, exts |-> <<>>]

\* fmt.Sprintf("%s.dem.zst", matchID)
DownloadName(matchID) == [stem |-> matchID.stem, exts |-> matchID.exts \o <<"dem", "zst">>]

Put(f, k, v) == [x \in DOMAIN f \cup {k} |-> IF x = k THEN v ELSE f[x]]

Drop(f, ks) == [x \in DOMAIN f \ ks |-> f[x]]

\* Speakers for which one ProcessDemo call may write a wav file.
ArtifactSets == {{}, {"A", "B"}}

InitServer ==
    /\ DecoderIdle
    /\ RunIdle
    /\ ServerIdle
    /\ PoolIdle
    /\ StoreIdle
    /\ NamesIdle

\* Requests are numbered in the order the server accepts them.
NextToAccept(r) ==
    /\ reqs[r].pc = "new"
    /\ \A q \in Requests : q < r => reqs[q].pc # "new"

\* time passes
Tick ==
    /\ now < MaxTime
    /\ now' = now + 1
    /\ UNCHANGED <<reqs, uploadFiles, uploadedDemos, tempFiles, outputFiles,
                   metadataFiles>>
    /\ UNCHANGED <<decVars, runVars, poolVars, storeVars, nameVars>>

\* handleUpload: FormFile, demoID, os.Create(tempPath), io.Copy.
UploadAccept(r) ==
    /\ NextToAccept(r)
    /\ \/ \E name \in UploadNames :
            /\ reqs' = [reqs EXCEPT ![r] =
                          [@ EXCEPT !.pc = "register", !.kind = "upload",
                                    !.name = name, !.demoID = DemoID(now),
                                    !.at = now]]
            /\ uploadFiles' = Put(uploadFiles, name, r)
       \/ /\ reqs' = [reqs EXCEPT ![r] =
                        [@ EXCEPT !.pc = "done", !.kind = "upload",
                                  !.response = "error"]]
          /\ UNCHANGED uploadFiles
    /\ UNCHANGED <<now, uploadedDemos, tempFiles, outputFiles, metadataFiles>>
    /\ UNCHANGED <<decVars, runVars, poolVars, storeVars, nameVars>>

\* handleDownloadFromURL: matchID from the URL, demoID, DownloadDemo.
DownloadAccept(r) ==
    /\ NextToAccept(r)
    /\ \E room \in RoomParts :
         LET matchID == extractMatchIDFromURL(room)
             name == DownloadName(matchID)
         IN \/ /\ reqs' = [reqs EXCEPT ![r] =
                             [@ EXCEPT !.pc = "register", !.kind = "download",
                                       !.name = name, !.matchID = matchID,
                                       !.demoID = DemoID(now), !.at = now]]
               /\ uploadFiles' = Put(uploadFiles, name, r)
            \/ /\ reqs' = [reqs EXCEPT ![r] =
                             [@ EXCEPT !.pc = "done", !.kind = "download",
                                       !.response = "error"]]
               /\ UNCHANGED uploadFiles
    /\ UNCHANGED <<now, uploadedDemos, tempFiles, outputFiles, metadataFiles>>
    /\ UNCHANGED <<decVars, runVars, poolVars, storeVars, nameVars>>

\* registerUploadedDemo
registerUploadedDemo(r) ==
    /\ reqs[r].pc = "register"
    /\ uploadedDemos' = Put(uploadedDemos, reqs[r].name, now)
    /\ reqs' = [reqs EXCEPT ![r].pc = "process"]
    /\ UNCHANGED <<now, uploadFiles, tempFiles, outputFiles, metadataFiles>>
    /\ UNCHANGED <<decVars, runVars, poolVars, storeVars, nameVars>>

\* The handler when ProcessDemo returned an error.
ProcessFailed(r) ==
    /\ reqs' = [reqs EXCEPT ![r] = [@ EXCEPT !.pc = "done", !.response = "error"]]
    /\ uploadFiles' = IF reqs[r].kind = "download"
                      THEN Drop(uploadFiles, {reqs[r].name})
                      ELSE uploadFiles

\* ProcessDemo: os.Open, io.ReadAll, parse.
ProcessDemoRead(r) ==
    /\ reqs[r].pc = "process"
    /\ IF reqs[r].name \in DOMAIN uploadFiles
       THEN \/ /\ reqs' = [reqs EXCEPT ![r] =
                             [@ EXCEPT !.pc = "pipeline",
                                       !.read = uploadFiles[reqs[r].name]]]
               /\ UNCHANGED uploadFiles
            \/ ProcessFailed(r)
       ELSE ProcessFailed(r)
    /\ UNCHANGED <<now, uploadedDemos, tempFiles, outputFiles, metadataFiles>>
    /\ UNCHANGED <<decVars, runVars, poolVars, storeVars, nameVars>>

\* ProcessDemo: cleanupOldDemoFiles, then the pipeline writes the wav files.
ProcessDemoWrite(r) ==
    /\ reqs[r].pc = "pipeline"
    /\ \E speakers \in ArtifactSets :
         LET id == reqs[r].demoID
             kept == {f \in outputFiles : ~ContainsDemoWav(f, id)}
         IN /\ outputFiles' = kept \cup {WavPath(s, id) : s \in speakers}
            /\ metadataFiles' = {m \in metadataFiles : JsonPath(m.DemoID) # JsonPath(id)}
    /\ reqs' = [reqs EXCEPT ![r].pc = "save"]
    /\ UNCHANGED <<now, uploadFiles, uploadedDemos, tempFiles>>
    /\ UNCHANGED <<decVars, runVars, poolVars, storeVars, nameVars>>

\* metadataStore.SaveMetadata
SaveMetadata(r) ==
    /\ reqs[r].pc = "save"
    /\ LET id == reqs[r].demoID
           players == {f \in outputFiles : ContainsDemoWav(f, id)}
           record == [DemoID |-> id, Filename |-> reqs[r].name,
                      Players |-> players, UploadTime |-> now,
                      MatchID |-> ExtractMatchIDFromFilename(reqs[r].name),
                      Status |-> "completed", Map |-> "", Teams |-> "none"]
       IN \/ /\ metadataFiles' =
                    {m \in metadataFiles : JsonPath(m.DemoID) # JsonPath(id)}
                        \cup {record}
             /\ reqs' = [reqs EXCEPT ![r] =
                           [@ EXCEPT !.pc = "registerTemp", !.players = players]]
          \/ /\ UNCHANGED metadataFiles
             /\ reqs' = [reqs EXCEPT ![r].pc = "respond"]
    /\ UNCHANGED <<now, uploadFiles, uploadedDemos, tempFiles, outputFiles>>
    /\ UNCHANGED <<decVars, runVars, poolVars, storeVars, nameVars>>

\* registerTempFile for every audio file of the record.
registerTempFile(r) ==
    /\ reqs[r].pc = "registerTemp"
    /\ LET names == reqs[r].players
       IN tempFiles' = [f \in DOMAIN tempFiles \cup names |->
                           IF f \in names THEN now ELSE tempFiles[f]]
    /\ reqs' = [reqs EXCEPT ![r].pc = "registerJson"]
    /\ UNCHANGED <<now, uploadFiles, uploadedDemos, outputFiles, metadataFiles>>
    /\ UNCHANGED <<decVars, runVars, poolVars, storeVars, nameVars>>

\* registerTempFile(demoID + ".json")
registerMetadataFile(r) ==
    /\ reqs[r].pc = "registerJson"
    /\ tempFiles' = Put(tempFiles, JsonPath(reqs[r].demoID), now)
    /\ reqs' = [reqs EXCEPT ![r].pc = "respond"]
    /\ UNCHANGED <<now, uploadFiles, uploadedDemos, outputFiles, metadataFiles>>
    /\ UNCHANGED <<decVars, runVars, poolVars, storeVars, nameVars>>

\* Cookie and redirect; handleUpload removes its temporary file.
Respond(r) ==
    /\ reqs[r].pc = "respond"
    /\ reqs' = [reqs EXCEPT ![r] = [@ EXCEPT !.pc = "done", !.response = "redirect"]]
    /\ uploadFiles' = IF reqs[r].kind = "upload"
                      THEN Drop(uploadFiles, {reqs[r].name})
                      ELSE uploadFiles
    /\ UNCHANGED <<now, uploadedDemos, tempFiles, outputFiles, metadataFiles>>
    /\ UNCHANGED <<decVars, runVars, poolVars, storeVars, nameVars>>

\* The metadata paths cleanupExpiredFiles removes next to expired wav files.
SiblingMetadata(expired) ==
    {JsonPath(extractDemoIDFromFilename(f)) :
        f \in {g \in expired : HasSuffixWav(g) /\ extractDemoIDFromFilename(g) # <<>>}}

\* The entries a pass deletes from its map, given those whose os.Remove failed.
EvictedEntries_onlyDeleted(expired, undeleted) == expired \ undeleted
EvictedEntries(expired, undeleted) == expired

\* now.Sub(creationTime) > tempFileLifetime
IsExpired_atLifetime(age) == age >= tempFileLifetime
IsExpired(age) == age > tempFileLifetime

\* One pass of cleanupExpiredFiles; os.Remove may fail.
cleanupExpiredFiles ==
    LET expired == {f \in DOMAIN tempFiles : IsExpired(now - tempFiles[f])}
    IN /\ expired # {}
       /\ \E undeleted \in SUBSET expired :
            LET removed == (expired \ undeleted) \cup SiblingMetadata(expired)
            IN /\ outputFiles' = outputFiles \ removed
               /\ metadataFiles' =
                    {m \in metadataFiles : JsonPath(m.DemoID) \notin removed}
               /\ tempFiles' = Drop(tempFiles, EvictedEntries(expired, undeleted))
       /\ UNCHANGED <<now, reqs, uploadFiles, uploadedDemos>>
       /\ UNCHANGED <<decVars, runVars, poolVars, storeVars, nameVars>>

\* One pass of cleanupExpiredDemos; os.Remove may fail.
cleanupExpiredDemos ==
    LET expired == {f \in DOMAIN uploadedDemos :
                       now - uploadedDemos[f] > tempFileLifetime}
    IN /\ expired # {}
       /\ \E undeleted \in SUBSET expired :
            /\ uploadFiles' = Drop(uploadFiles, expired \ undeleted)
            /\ uploadedDemos' = Drop(uploadedDemos, EvictedEntries(expired, undeleted))
       /\ UNCHANGED <<now, reqs, tempFiles, outputFiles, metadataFiles>>
       /\ UNCHANGED <<decVars, runVars, poolVars, storeVars, nameVars>>

Next ==
    \/ Tick
    \/ \E r \in Requests : UploadAccept(r)
    \/ \E r \in Requests : DownloadAccept(r)
    \/ \E r \in Requests : registerUploadedDemo(r)
    \/ \E r \in Requests : ProcessDemoRead(r)
    \/ \E r \in Requests : ProcessDemoWrite(r)
    \/ \E r \in Requests : SaveMetadata(r)
    \/ \E r \in Requests : registerTempFile(r)
    \/ \E r \in Requests : registerMetadataFile(r)
    \/ \E r \in Requests : Respond(r)
    \/ cleanupExpiredFiles
    \/ cleanupExpiredDemos

Spec == InitServer /\ [][Next]_vars

\* ------------------------------------------------------------------------
\* Properties of the server.
\* ------------------------------------------------------------------------
\* The derived match identifier of the recording a request submitted.
MatchIDOf(r) == ExtractMatchIDFromFilename(reqs[r].name)

\* The request was answered with the identity of a run.
Resolved(r) == reqs[r].pc = "done" /\ reqs[r].response = "redirect"

\* ProcessDemo read the recording for the request.
Processed(r) == reqs[r].read # NoRequest

\* C10: two requests for recordings with the same non-empty derived match
\* identifier, the second accepted within the TTL of the first, resolve to
\* the same run identity, and the recording is processed only once.
C10_SameMatchSameRun ==
    \A r1, r2 \in Requests :
        ( /\ r1 < r2
          /\ Resolved(r1)
          /\ Resolved(r2)
          /\ MatchIDOf(r1) # EmptyString
          /\ MatchIDOf(r1) = MatchIDOf(r2)
          /\ reqs[r2].at - reqs[r1].at <= tempFileLifetime )
        => /\ reqs[r1].demoID = reqs[r2].demoID
           /\ ~(Processed(r1) /\ Processed(r2))

\* MetadataStore.LoadMetadata: the record read from <demoID>.json, if any.
LoadMetadata(demoID) ==
    IF demoID = NoDemoID THEN {}
    ELSE {m \in metadataFiles : JsonPath(m.DemoID) = JsonPath(demoID)}

\* handleHome shows a run when LoadMetadata finds its record.
handleHome(demoID) == LoadMetadata(demoID) # {}

\* The file server of /output/ serves every file of outputDir.
ServeOutput(name) ==
    \/ name \in outputFiles
    \/ \E m \in metadataFiles : JsonPath(m.DemoID) = name

\* Registered files whose age is beyond the TTL.
ExpiredEntries == {f \in DOMAIN tempFiles : now - tempFiles[f] > tempFileLifetime}

\* C11: once the TTL has elapsed since a file of a run was registered, the
\* file cannot be retrieved any more, whether or not the sweep has run:
\* neither the file server nor the home page gives it.
C11_ExpiredNotRetrievable ==
    \A f \in ExpiredEntries :
        /\ ~ServeOutput(f)
        /\ \A r \in Requests : f = JsonPath(reqs[r].demoID) => ~handleHome(reqs[r].demoID)

\* The handler of the request has accepted the recording and made its run.
Accepted(r) == reqs[r].demoID # NoDemoID

\* ProcessDemo has not returned yet for the request.
InFlight(r) == reqs[r].pc \in {"register", "process", "pipeline"}

\* C12: from the acceptance of a recording on, and before the TTL has
\* elapsed, the run's record is found by a status query; while ProcessDemo
\* has not returned, the record found has status "processing".
C12_StatusAlwaysQueryable ==
    \A r \in Requests :
        (Accepted(r) /\ now - reqs[r].at <= tempFileLifetime) =>
            /\ handleHome(reqs[r].demoID)
            /\ InFlight(r) =>
                 \A m \in LoadMetadata(reqs[r].demoID) : m.Status = "processing"

\* The status a query finds for a run.
StatusOf(demoID) ==
    IF LoadMetadata(demoID) = {} THEN "not found"
    ELSE (CHOOSE m \in LoadMetadata(demoID) : TRUE).Status

\* C13: the status of an accepted run only goes from "processing" to
\* "completed" or "failed"; it has one of these two values when the handler
\* ends, and a "completed" or "failed" status never changes again before
\* the sweep evicts the record.
C13_StatusChangesOnce ==
    [][\A r \in Requests :
          Accepted(r) =>
              LET old == StatusOf(reqs[r].demoID)
                  new == StatusOf(reqs[r].demoID)'
              IN /\ old = "processing" => new \in {"processing", "completed", "failed"}
                 /\ old \in {"completed", "failed"} =>
                      \/ new = old
                      \/ new = "not found" /\ JsonPath(reqs[r].demoID) \in ExpiredEntries
                 /\ (reqs[r].pc # "done" /\ reqs'[r].pc = "done") =>
                      new \in {"completed", "failed"}
     ]_vars

\* The pool of the run has been started.
PoolStarted == runPc \in {"sending", "waiting", "processed", "done"} /\ workers # <<>>

NumSpeakers == Cardinality(FilteredPlayers(voiceDataPerPlayer))

IsFileSweep == reqs' = reqs /\ tempFiles' # tempFiles

\* C15: a pass of the sweep removes every expired artifact from the index,
\* and when it has deleted an expired wav file it has also tried, in the same
\* pass, to delete the metadata record of the run the file belongs to.
C15_SweepEvictsArtifactAndRecord ==
    [][IsFileSweep =>
          \A f \in ExpiredEntries :
              /\ f \notin DOMAIN tempFiles'
              /\ (HasSuffixWav(f) /\ f \notin outputFiles') =>
                   \A m \in metadataFiles' :
                       f \in m.Players =>
                           JsonPath(m.DemoID) \in
                               ExpiredEntries \cup SiblingMetadata(ExpiredEntries)
     ]_vars

\* Registered uploaded recordings whose age is beyond the TTL.
ExpiredDemos ==
    {f \in DOMAIN uploadedDemos : now - uploadedDemos[f] > tempFileLifetime}

\* The step is a pass of cleanupExpiredDemos.
IsDemoSweep == reqs' = reqs /\ uploadedDemos' # uploadedDemos

\* C16: a pass of either sweep removes every expired entry from its map,
\* also the entries whose file is still there because os.Remove failed, so
\* no later pass tries that file again.
C16_FailedDeleteStillEvicted ==
    [][/\ IsFileSweep =>
            \A f \in ExpiredEntries : f \notin DOMAIN tempFiles'
       /\ IsDemoSweep =>
            \A f \in ExpiredDemos : f \notin DOMAIN uploadedDemos'
     ]_vars

\* An expired wav file and an expired recording are still in storage after
\* the passes that dropped their entries.
C16_Witness ==
    /\ \E r \in Requests :
         /\ reqs[r].pc = "done"
         /\ \E f \in reqs[r].players :
              f \in outputFiles /\ f \notin DOMAIN tempFiles
         /\ now - reqs[r].at > tempFileLifetime
    /\ \E r \in Requests :
         /\ reqs[r].pc = "done"
         /\ reqs[r].kind = "download"
         /\ reqs[r].response = "redirect"
         /\ reqs[r].name \in DOMAIN uploadFiles
         /\ reqs[r].name \notin DOMAIN uploadedDemos
    /\ \A q \in Requests : reqs[q].demoID # NoDemoID =>
         \A p \in Requests : p # q => reqs[p].demoID # reqs[q].demoID

\* The handler of the request has not finished the run: ProcessDemo,
\* SaveMetadata or the registration of the run's files is still to come.
RunUnfinished(r) == Accepted(r) /\ reqs[r].pc \notin {"respond", "done"}

\* The files of a run that exist: its recording and its wav files.
RecordingOf(r) == {reqs[r].name} \cap DOMAIN uploadFiles
ArtifactsOnDisk(r) ==
    IF reqs[r].pc \in {"save", "registerTemp", "registerJson"}
    THEN {f \in outputFiles : ContainsDemoWav(f, reqs[r].demoID)}
    ELSE {}

\* C17: a pass of cleanupExpiredFiles or cleanupExpiredDemos never deletes
\* the recording or a wav file of a run that has not finished.
C17_SweepSparesInFlightRuns ==
    [][(IsFileSweep \/ IsDemoSweep) =>
          \A r \in Requests : RunUnfinished(r) =>
              /\ RecordingOf(r) \subseteq DOMAIN uploadFiles'
              /\ ArtifactsOnDisk(r) \subseteq outputFiles'
     ]_vars

\* The non-empty chunks of a speaker in arrival order.
ArrivalsOf(s) ==
    LET own == SelectSeq(feed, LAMBDA m : m.speaker = s /\ m.chunk # EmptyChunk)
    IN [i \in 1..Len(own) |-> own[i].chunk]

\* The position in the speaker's arrivals of the chunk a decoded block comes
\* from, 0 if there is none: a block of the chunked format carries the
\* frameIndex of its record, a block of the unchunked format the position of
\* its payload.
SourceChunk(fmt, arrivals, b) ==
    IF fmt = OPUS
    THEN IF b.frameIndex + 1 \in 1..Len(arrivals) /\ arrivals[b.frameIndex + 1].ok
         THEN b.frameIndex + 1 ELSE 0
    ELSE LET from == {i \in 1..Len(arrivals) :
                        \E k \in 1..Len(arrivals[i].data) :
                            arrivals[i].data[k] = Frame(b.frameIndex)}
         IN IF from = {} THEN 0 ELSE CHOOSE i \in from : \A j \in from : i <= j

\* The decoded blocks of a speaker's finished wav file.
DecodedBlocksOf(s) ==
    IF outputDir[s].exists /\ outputDir[s].complete
    THEN SelectSeq(outputDir[s].blocks, LAMBDA b : b.kind = "decoded")
    ELSE <<>>

\* C18: the buffer of a speaker holds the speaker's non-empty chunks in the
\* order of the feed, and the decoded blocks of the speaker's wav file come
\* from chunks of the feed in that same order, for every feed, pool size and
\* worker schedule.
C18_ArrivalOrderPreserved ==
    \A s \in Speakers :
        /\ feed # <<>> => voiceDataPerPlayer[s] = ArrivalsOf(s)
        /\ LET blocks == DecodedBlocksOf(s)
               arrivals == ArrivalsOf(s)
           IN /\ \A j \in 1..Len(blocks) :
                    SourceChunk(format, arrivals, blocks[j]) > 0
              /\ \A j \in 1..(Len(blocks) - 1) :
                    SourceChunk(format, arrivals, blocks[j])
                        < SourceChunk(format, arrivals, blocks[j + 1])

\* Three speakers talking at the same time, two workers, all three wav files
\* written with all their blocks.
C18_Witness ==
    /\ runPc = "done"
    /\ Len(feed) = 12
    /\ feed[1].chunk = EmptyChunk
    /\ feed[4].speaker = "C" /\ feed[5].speaker = "B" /\ feed[6].speaker = "A"
    /\ Len(workers) = 2
    /\ \A s \in Speakers : Len(DecodedBlocksOf(s)) = 3

\* The speakers with at least one non-empty chunk in the feed.
SpeakersWithData == {s \in Speakers : Len(ArrivalsOf(s)) > 0}

\* processVoiceDataParallel has returned and no file operation failed.
PipelineReturned == runPc \in {"processed", "done"} /\ ~crashed /\ pvdpResult # "none"

\* C19: when the pipeline has returned, outputDir holds one wav file for
\* each speaker with at least one non-empty chunk and for no other speaker,
\* whatever format tag the feed supplied.
C19_OneArtifactPerSpeakerWithData ==
    (PipelineReturned /\ NoStorageFailure) =>
        ArtifactsOf(outputDir) = SpeakersWithData

\* parser.ParseToEnd has returned without error.
Parsed == runPc \notin {"off", "parse", "failed"}

\* The errors channel holds an error of the speaker's job.
CausedError(s) == \E i \in 1..Len(errors) : errors[i].player = s /\ errors[i].err

\* C20: a speaker without a non-empty chunk in the feed gets no job, no wav
\* file and no error, and is not listed in the run's record; when no speaker
\* has data, ProcessDemo returns nil without starting the pool and the run
\* ends with no wav file.
C20_NoDataNoArtifactNoError ==
    Parsed =>
        /\ \A s \in Speakers \ SpeakersWithData :
              /\ ~outputDir[s].exists
              /\ executed[s] = 0
              /\ ~CausedError(s)
              /\ s \notin toSend
              /\ metadata # NoMetadata => s \notin metadata.players
        /\ SpeakersWithData = {} =>
              /\ runPc \in {"processed", "done"}
              /\ ~crashed
              /\ workers = <<>>
              /\ errors = <<>>
              /\ ArtifactsOf(outputDir) = {}
              /\ metadata # NoMetadata =>
                    metadata.status = "completed" /\ metadata.players = {}

\* A finished run whose feed holds only an empty chunk of speaker C, beside
\* the chunks of A: A has a wav file, C has none.
C20_Witness ==
    /\ RunCompleted
    /\ \E i \in 1..Len(feed) : feed[i].speaker = "C" /\ feed[i].chunk = EmptyChunk
    /\ SpeakersWithData = {"A"}
    /\ executed = [s \in Speakers |-> IF s = "A" THEN 1 ELSE 0]
    /\ metadata.players = {"A"}
    /\ errors = <<[player |-> "A", err |-> FALSE, cause |-> "nil"]>>

\* ProcessDemo returned an error for the request: the recording could not
\* be opened, read or parsed.
ProcessDemoFailed(r) ==
    Accepted(r) /\ reqs[r].pc = "done" /\ reqs[r].response = "error"

\* C21: after ProcessDemo failed to open, read or parse the recording, the
\* run's record has status "failed" and outputDir holds no wav file of the
\* run's identifier.
C21_UnreadableRecordingFailsRun ==
    \A r \in Requests :
        ProcessDemoFailed(r) =>
            /\ StatusOf(reqs[r].demoID) = "failed"
            /\ \A f \in outputFiles : ~ContainsDemoWav(f, reqs[r].demoID)

\* The speakers whose wav file could not be created or written.
WriteFailed == {errors[i].player : i \in {j \in 1..Len(errors) : errors[j].cause \in {"create", "write"}}}

\* C22: when os.Create or enc.Write failed for a speaker's wav file, the run
\* still ends "completed", every other job has run, and the speaker is not
\* among the players of the run's record.
C22_WriteFailureDropsOnlyThatSpeaker ==
    (runPc = "done" /\ WriteFailed # {}) =>
        /\ \A s \in FilteredPlayers(voiceDataPerPlayer) : executed[s] = 1
        /\ metadata # NoMetadata =>
              /\ metadata.status = "completed"
              /\ metadata.players \cap WriteFailed = {}

\* The workers that hold a job of the speaker.
WorkersOn(s) ==
    {w \in DOMAIN workers : workers[w].state = "busy" /\ workers[w].job = s}

\* C23: under every schedule, the chunks of a speaker are decoded by one job
\* at a time and once, and the blocks of a complete wav file are those a
\* decoder created for this job alone yields from the speaker's chunks: no
\* state of another job's decoder enters.
C23_DecoderPrivateToJob ==
    \A s \in Speakers :
        /\ Cardinality(WorkersOn(s)) <= 1
        /\ executed[s] <= 1
        /\ ~crashed => executed[s] + Cardinality(WorkersOn(s)) <= 1
        /\ (outputDir[s].exists /\ outputDir[s].complete) =>
              outputDir[s].blocks = RunJob(format, voiceDataPerPlayer[s]).o

\* One worker has run the jobs of three speakers one after the other, each
\* with frames 0, 1, 2 in the chunked format, and each wav file has its
\* three decoded blocks.
C23_Witness ==
    /\ runPc = "done"
    /\ format = STEAM
    /\ Len(workers) = 1
    /\ voiceDataPerPlayer = [s \in Speakers |-> Sequential]
    /\ \A s \in Speakers :
          /\ outputDir[s].complete
          /\ outputDir[s].blocks = <<DecodedBlock(0), DecodedBlock(1), DecodedBlock(2)>>

\* ------------------------------------------------------------------------
\* The buffer pool: conversion calls of concurrent workers that get a sample
\* buffer, fill it and put it back.
\* ------------------------------------------------------------------------
MaxCalls == 2
MaxArrays == 2
MaxPoolPayloads == 2
PutCapLimit == 8192

\* A slice: its backing array (0: an array made by the call itself), its
\* length and its capacity, in samples.
Slice(array, len, cap) == [array |-> array, len |-> len, cap |-> cap]
NoSlice == Slice(-1, 0, 0)
OwnArray == 0

\* len(payloads) of a call: few payloads, or more than the pooled capacity holds.
PayloadCounts == {MaxPoolPayloads, 9}
ConversionFunctions == {"convertAudioDataToWavFilesOptimized", "opusToWavOptimized"}

NoCall == [pc |-> "idle", fn |-> "", n |-> 0, deferred |-> NoSlice, o |-> NoSlice]

InitPool ==
    /\ DecoderIdle
    /\ RunIdle
    /\ ServerIdle
    /\ StoreIdle
    /\ NamesIdle
    /\ int32Pool = {}
    /\ calls = [c \in 1..MaxCalls |-> NoCall]
    /\ arrays = <<>>

\* p.int32Pool.Get() hands out an item: it is no longer in the pool.
TakeFromPool_peek(pool, s) == pool
TakeFromPool(pool, s) == pool \ {s}

\* The [:0] of GetInt32Buffer.
Emptied(s) == [s EXCEPT !.len = 0]

\* PutInt32Buffer
PutInt32Buffer(pool, buf) ==
    IF buf.cap <= PutCapLimit THEN pool \cup {buf} ELSE pool

\* A worker calls a conversion function: o := bufferPool.GetInt32Buffer()
\* and defer bufferPool.PutInt32Buffer(o), which keeps the slice as it is now.
GetInt32Buffer(c) ==
    /\ calls[c].pc = "idle"
    /\ \E fn \in ConversionFunctions, n \in PayloadCounts :
         \/ \E s \in int32Pool :
              /\ int32Pool' = TakeFromPool(int32Pool, s)
              /\ calls' = [calls EXCEPT ![c] =
                             [pc |-> "got", fn |-> fn, n |-> n,
                              deferred |-> Emptied(s), o |-> Emptied(s)]]
              /\ UNCHANGED arrays
         \/ /\ Len(arrays) < MaxArrays
            /\ arrays' = Append(arrays, 0)
            /\ calls' = [calls EXCEPT ![c] =
                           [pc |-> "got", fn |-> fn, n |-> n,
                            deferred |-> Emptied(Slice(Len(arrays) + 1, 0, PoolBufferCap)),
                            o |-> Emptied(Slice(Len(arrays) + 1, 0, PoolBufferCap))]]
            /\ UNCHANGED int32Pool
    /\ UNCHANGED <<decVars, runVars, lifeVars, storeVars, nameVars>>

\* if cap(o) < len(payloads)*480 { o = make([]int, 0, len(payloads)*480) }
PreAllocate(c) ==
    /\ calls[c].pc = "got"
    /\ LET need == calls[c].n * FrameSamples(calls[c].fn)
       IN calls' = [calls EXCEPT ![c].pc = "loop",
                                 ![c].o = IF @.cap < need
                                          THEN Slice(OwnArray, 0, need) ELSE @]
    /\ UNCHANGED <<int32Pool, arrays>>
    /\ UNCHANGED <<decVars, runVars, lifeVars, storeVars, nameVars>>

\* One payload of one frame: o = o[:startLen+len(pcm)] and the copy loop.
ResliceAndFill(c) ==
    /\ calls[c].pc = "loop"
    /\ LET fs == FrameSamples(calls[c].fn)
           end == calls[c].o.len + fs
           a == calls[c].o.array
       IN /\ calls[c].o.len < MaxPoolPayloads * fs
          /\ end <= calls[c].o.cap
          /\ calls' = [calls EXCEPT ![c].o.len = end]
          /\ arrays' = IF a = OwnArray \/ arrays[a] >= end THEN arrays
                       ELSE [arrays EXCEPT ![a] = end]
    /\ UNCHANGED int32Pool
    /\ UNCHANGED <<decVars, runVars, lifeVars, storeVars, nameVars>>

\* The wav file is written from o and the function returns: the deferred
\* PutInt32Buffer runs last.
ReturnBuffer(c) ==
    /\ calls[c].pc = "loop"
    /\ int32Pool' = PutInt32Buffer(int32Pool, calls[c].deferred)
    /\ calls' = [calls EXCEPT ![c] = NoCall]
    /\ UNCHANGED arrays
    /\ UNCHANGED <<decVars, runVars, lifeVars, storeVars, nameVars>>

\* sync.Pool may drop an item at any time.
PoolDrop ==
    /\ \E s \in int32Pool : int32Pool' = int32Pool \ {s}
    /\ UNCHANGED <<calls, arrays>>
    /\ UNCHANGED <<decVars, runVars, lifeVars, storeVars, nameVars>>

NextPool ==
    \/ \E c \in 1..MaxCalls : GetInt32Buffer(c)
    \/ \E c \in 1..MaxCalls : PreAllocate(c)
    \/ \E c \in 1..MaxCalls : ResliceAndFill(c)
    \/ \E c \in 1..MaxCalls : ReturnBuffer(c)
    \/ PoolDrop

SpecPool == InitPool /\ [][NextPool]_vars

\* The calls that hold a buffer of the pool.
Holding == {c \in DOMAIN calls : calls[c].pc # "idle"}

\* C24: a call receives a slice of length 0, no two calls hold slices of the
\* same pooled array at the same time, and an array held by a call is not in
\* the pool: it is put back only when the call returns.
C24_PooledBufferEmptyAndExclusive ==
    /\ \A c \in Holding : calls[c].pc = "got" => calls[c].o.len = 0
    /\ \A c, d \in Holding : c # d => calls[c].deferred.array # calls[d].deferred.array
    /\ \A c \in Holding : \A s \in int32Pool : s.array # calls[c].deferred.array

\* A call has just received, empty, an array that an earlier call filled and
\* put back, while another call is filling another array.
C24_Witness ==
    /\ calls[1].pc = "got"
    /\ calls[1].o.array \in 1..Len(arrays)
    /\ arrays[calls[1].o.array] > 0
    /\ calls[1].o.len = 0
    /\ calls[2].pc = "loop"
    /\ calls[2].o.array \in 1..Len(arrays)
    /\ calls[2].o.len > 0

\* ------------------------------------------------------------------------
\* The metadata record of one finished run, changed by saveTeamMetadata and
\* EnrichMetadataWithMatchInfo while the eviction sweep runs.
\* ------------------------------------------------------------------------
Updaters == {"saveTeamMetadata", "EnrichMetadataWithMatchInfo"}

\* The run the calls are about: its record as SaveMetadata wrote it.
StoredDemoID == DemoID(0)
StoredRecord ==
    [DemoID |-> StoredDemoID, Filename |-> FaceitDem,
     Players |-> {WavPath("A", StoredDemoID)}, UploadTime |-> 0,
     MatchID |-> ExtractMatchIDFromFilename(FaceitDem),
     Status |-> "completed", Map |-> "", Teams |-> "none"]

\* The handler has saved the record and registered the wav file and the
\* metadata file.
InitStore ==
    /\ DecoderIdle
    /\ RunIdle
    /\ PoolIdle
    /\ now = 0
    /\ reqs = [r \in Requests |-> NewRequest]
    /\ uploadFiles = [n \in {} |-> NoRequest]
    /\ uploadedDemos = [n \in {} |-> NoTime]
    /\ outputFiles = StoredRecord.Players
    /\ metadataFiles = {StoredRecord}
    /\ tempFiles = [f \in StoredRecord.Players \cup {JsonPath(StoredDemoID)} |-> 0]
    /\ updaters = [u \in Updaters |-> [pc |-> "idle", metadata |-> NoRecord]]
    /\ lookup = NoLookup
    /\ NamesIdle

\* What each function changes in the record it loaded.
Modified(u, m) ==
    IF u = "saveTeamMetadata"
    THEN [m EXCEPT !.Teams = "assigned"]
    ELSE [m EXCEPT !.MatchID = ExtractMatchIDFromFilename(FaceitDem),
                   !.Map = "de_mirage"]

\* metadataStore.LoadMetadata(demoID) and the changes to the loaded record.
UpdaterLoad(u) ==
    /\ updaters[u].pc = "idle"
    /\ IF LoadMetadata(StoredDemoID) = {}
       THEN updaters' = [updaters EXCEPT ![u].pc = "failed"]
       ELSE \E m \in LoadMetadata(StoredDemoID) :
              updaters' = [updaters EXCEPT ![u] =
                             [pc |-> "loaded", metadata |-> Modified(u, m)]]
    /\ UNCHANGED lookup
    /\ UNCHANGED <<decVars, runVars, lifeVars, poolVars, nameVars>>

\* os.WriteFile(metadataPath, metadataBytes, 0644) of UpdateMetadata and of
\* EnrichMetadataWithMatchInfo.
UpdaterSave(u) ==
    /\ updaters[u].pc = "loaded"
    /\ \/ /\ metadataFiles' =
               {m \in metadataFiles :
                    JsonPath(m.DemoID) # JsonPath(updaters[u].metadata.DemoID)}
                 \cup {updaters[u].metadata}
          /\ updaters' = [updaters EXCEPT ![u].pc = "done"]
       \/ /\ UNCHANGED metadataFiles
          /\ updaters' = [updaters EXCEPT ![u].pc = "failed"]
    /\ UNCHANGED <<now, reqs, uploadFiles, uploadedDemos, tempFiles, outputFiles>>
    /\ UNCHANGED lookup
    /\ UNCHANGED <<decVars, runVars, poolVars, nameVars>>

NextStore ==
    \/ \E u \in Updaters : UpdaterLoad(u)
    \/ \E u \in Updaters : UpdaterSave(u)
    \/ Tick
    \/ cleanupExpiredFiles

SpecStore == InitStore /\ [][NextStore]_vars

\* The record on disk holds the change of every call that has returned nil.
NoUpdateLost ==
    \A m \in metadataFiles :
        /\ updaters["saveTeamMetadata"].pc = "done" => m.Teams = "assigned"
        /\ updaters["EnrichMetadataWithMatchInfo"].pc = "done" => m.Map = "de_mirage"

\* C25: the calls that change the registry are serialized: the change of a
\* call that has returned is never overwritten by a call that loaded the
\* record before it, and a record the sweep has evicted is not written back.
C25_RegistryUpdatesSerialized ==
    [][/\ NoUpdateLost'
       /\ metadataFiles = {} => metadataFiles' = {}
     ]_vars

\* ------------------------------------------------------------------------
\* FindDemoByMatchID over the metadata records of outputDir.
\* ------------------------------------------------------------------------
MaxStored == 2

MatchA == ExtractMatchIDFromFilename(FaceitDem)
MatchB == [stem |-> <<"1", "f", "g", "h", "i", "j">>, exts |-> <<>>]

\* The record SaveMetadata writes for a run accepted at tick t, saved at
\* tick u, from a recording with match identifier id.
StoredRun(t, u, id) ==
    [DemoID |-> DemoID(t), Filename |-> DownloadName(id), Players |-> {},
     UploadTime |-> u, MatchID |-> id, Status |-> "completed", Map |-> "",
     Teams |-> "none"]

StoredRuns ==
    {StoredRun(t, u, id) : t \in 0..MaxTime, u \in 0..MaxTime,
                           id \in {MatchA, MatchB, EmptyString}}

\* The json files outputDir may hold at time n: at most MaxStored, one per
\* run identifier, each saved at the tick of its identifier or the next one,
\* and not after n.
StoredBy(n) ==
    {m \in StoredRuns :
        \E t \in 0..m.UploadTime :
            m.DemoID = DemoID(t) /\ m.UploadTime <= t + 1 /\ m.UploadTime <= n}
Directories(n) ==
    {d \in {{}} \cup UNION {{{f[i] : i \in 1..k} : f \in [1..k -> StoredBy(n)]} :
                                k \in 1..MaxStored} :
        \A m1, m2 \in d : m1.DemoID = m2.DemoID => m1 = m2}

\* The maxAge a caller may pass: the eviction TTL, or the longer expiry of
\* the function's description.
MaxAges == {tempFileLifetime, MaxTime}

InitFind ==
    /\ DecoderIdle
    /\ RunIdle
    /\ PoolIdle
    /\ reqs = [r \in Requests |-> NewRequest]
    /\ uploadFiles = [n \in {} |-> NoRequest]
    /\ uploadedDemos = [n \in {} |-> NoTime]
    /\ tempFiles = [n \in {} |-> NoTime]
    /\ outputFiles = {}
    /\ now \in 0..MaxTime
    /\ metadataFiles \in Directories(now)
    /\ updaters = <<>>
    /\ lookup = NoLookup
    /\ NamesIdle

\* The number in the name demo_<n>.json of a record's file.
DemoNumber(m) == CHOOSE t \in 0..MaxTime : DemoID(t) = m.DemoID

\* os.ReadDir: the entries sorted by file name.
RECURSIVE ReadDir(_)
ReadDir(files) ==
    IF files = {} THEN <<>>
    ELSE LET first == CHOOSE m \in files :
                          \A x \in files : DemoNumber(m) <= DemoNumber(x)
         IN <<first>> \o ReadDir(files \ {first})

\* age <= maxAge
StillFresh(age, maxAge) == age <= maxAge

\* The loop of FindDemoByMatchID over the directory entries.
RECURSIVE FindLoop(_, _, _)
FindLoop(entries, matchID, maxAge) ==
    IF entries = <<>> THEN NoRecord
    ELSE LET found == Head(entries)
         IN IF found.MatchID = matchID
               /\ StillFresh(now - found.UploadTime, maxAge)
            THEN found
            ELSE FindLoop(Tail(entries), matchID, maxAge)

FindDemoByMatchID(matchID, maxAge) ==
    IF matchID = EmptyString THEN NoRecord
    ELSE FindLoop(ReadDir(metadataFiles), matchID, maxAge)

\* One call of FindDemoByMatchID; os.ReadDir may fail.
FindCall ==
    /\ lookup.pc = "idle"
    /\ \E matchID \in {MatchA, MatchB, EmptyString}, maxAge \in MaxAges :
         \/ lookup' = [pc |-> "returned", matchID |-> matchID, maxAge |-> maxAge,
                       result |-> FindDemoByMatchID(matchID, maxAge), err |-> FALSE]
         \/ /\ matchID # EmptyString
            /\ lookup' = [pc |-> "returned", matchID |-> matchID, maxAge |-> maxAge,
                          result |-> NoRecord, err |-> TRUE]
    /\ UNCHANGED updaters
    /\ UNCHANGED <<decVars, runVars, lifeVars, poolVars, nameVars>>

NextFind == FindCall

SpecFind == InitFind /\ [][NextFind]_vars

\* C26: the lookup returns a run only when the run's match identifier is the
\* requested, non-empty one and its age since UploadTime is within the TTL of
\* the eviction sweep; for the empty identifier it returns no run, no error.
C26_LookupWithinEvictionTTL ==
    lookup.pc = "returned" =>
        /\ lookup.matchID = EmptyString =>
              lookup.result = NoRecord /\ ~lookup.err
        /\ lookup.result # NoRecord =>
              /\ lookup.matchID # EmptyString
              /\ lookup.result.MatchID = lookup.matchID
              /\ lookup.result \in metadataFiles
              /\ now - lookup.result.UploadTime <= tempFileLifetime

\* The records a lookup for the identifier may resolve to: same match
\* identifier, not older than the TTL.
NonExpiredRunsOf(matchID) ==
    {m \in metadataFiles :
        m.MatchID = matchID /\ now - m.UploadTime <= tempFileLifetime}

\* C27: when several non-expired runs have the requested match identifier,
\* the lookup (called with the TTL as maxAge) returns the one created last.
C27_LookupReturnsMostRecent ==
    (lookup.pc = "returned" /\ ~lookup.err /\ lookup.maxAge = tempFileLifetime
        /\ lookup.matchID # EmptyString) =>
        \A m \in NonExpiredRunsOf(lookup.matchID) :
            /\ lookup.result # NoRecord
            /\ m.UploadTime <= lookup.result.UploadTime
            /\ DemoNumber(m) <= DemoNumber(lookup.result)

\* The i-th record fed was a frame ahead of expectedFrameIndex.
Ahead(i) == fed[i].rec.kind = "frame" /\ fed[i].rec.frameIndex > fed[i].before

\* C28: a record ahead of expectedFrameIndex leaves expectedFrameIndex as it
\* was and yields min(frameIndex - expectedFrameIndex, 10) concealed blocks;
\* so each later record that is still ahead is concealed for again, counted
\* from the same expectedFrameIndex, until a record with the expected index
\* or an end-of-stream marker comes.
C28_GapLeavesExpectedIndex ==
    \A i \in 1..Len(fed) :
        Ahead(i) =>
            /\ fed[i].after = fed[i].before
            /\ ~fed[i].err
            /\ IsConcealedRun(fed[i].out,
                              Min(fed[i].rec.frameIndex - fed[i].before, 10))
            /\ \A j \in (i + 1)..Len(fed) :
                  ( /\ \A k \in (i + 1)..j : fed[k].rec.kind = "frame"
                    /\ \A k \in (i + 1)..j : fed[k].rec.frameIndex > fed[i].before )
                  => /\ fed[j].before = fed[i].before
                     /\ IsConcealedRun(fed[j].out,
                                       Min(fed[j].rec.frameIndex - fed[i].before, 10))

\* Frames 0, 2, 3: frame 1 is lost; the record of frame 2 gets one concealed
\* block, the record of frame 3 two more, and expectedFrameIndex is still 1.
C28_Witness ==
    /\ format = STEAM
    /\ Len(fed) = 3
    /\ FedRecs = <<Frame(0), Frame(2), Frame(3)>>
    /\ fed[2].out = ConcealedRun(1)
    /\ fed[3].out = ConcealedRun(2)
    /\ expectedFrameIndex = 1

\* ------------------------------------------------------------------------
\* One run under a fair scheduler: whenever some goroutine of the run can
\* take a step, one of them eventually does.
\* ------------------------------------------------------------------------
SpecRunFair == InitRun /\ [][NextRun]_vars /\ WF_vars(NextRun)

\* processVoiceDataParallel has been entered and has not returned.
InPipeline == runPc \in {"sending", "waiting"}

\* C29: processVoiceDataParallel always terminates: once entered, it
\* eventually returns a result, whatever the number of speakers and workers.
C29_PipelineTerminates == InPipeline ~> (pvdpResult # "none")

\* Positions of the job of speaker s in the jobs channel.
QueuedAt(s) == {i \in 1..Len(jobs) : jobs[i] = s}

\* Positions of the results posted for the job of speaker s.
ResultsOf(s) == {i \in 1..Len(errors) : errors[i].player = s}

\* len(voiceDataPerPlayer) as passed to processVoiceDataParallel.
NumJobs == Cardinality(FilteredPlayers(voiceDataPerPlayer))

\* C30: in processVoiceDataParallel a job is in the queue or with one worker,
\* never both and never with two workers; it is executed at most once and
\* one result at most is posted for it, after its execution; a worker with a
\* job always finds room in the results channel; and when the function has
\* returned, every job was executed exactly once and has exactly one result,
\* so the results collected are as many as the speakers.
C30_EachJobOnceOneResult ==
    /\ \A s \in Speakers :
          /\ Cardinality(QueuedAt(s)) + Cardinality(WorkersOn(s)) <= 1
          /\ (s \in toSend \/ QueuedAt(s) # {}) => executed[s] = 0
          /\ executed[s] <= 1
          /\ Cardinality(ResultsOf(s)) <= executed[s]
          /\ (WorkersOn(s) # {} /\ ~crashed) => ResultsOf(s) = {}
    /\ (\E w \in DOMAIN workers : workers[w].state = "busy") =>
          Len(errors) < NumJobs
    /\ pvdpResult # "none" =>
          /\ Len(errors) = NumJobs
          /\ \A s \in FilteredPlayers(voiceDataPerPlayer) :
                executed[s] = 1 /\ Cardinality(ResultsOf(s)) = 1

\* Three jobs and at least two workers; the function has returned, with the
\* results in another order than A, B, C and one of them an error.
C30_Witness ==
    /\ pvdpResult # "none"
    /\ NumJobs = 3
    /\ Len(workers) >= 2
    /\ errors[1].player = "C"
    /\ errors[3].player = "A"
    /\ \E i \in 1..Len(errors) : errors[i].err

\* ------------------------------------------------------------------------
\* The server with one request and the sweep of the ticker goroutine: the
\* pass of cleanupExpiredFiles that has something to evict is never put off
\* for ever.
\* ------------------------------------------------------------------------
OneRequest == {r \in Requests : \A q \in Requests : r <= q}

NextSweep ==
    \/ Tick
    \/ \E r \in OneRequest : UploadAccept(r)
    \/ \E r \in OneRequest : DownloadAccept(r)
    \/ \E r \in OneRequest : registerUploadedDemo(r)
    \/ \E r \in OneRequest : ProcessDemoRead(r)
    \/ \E r \in OneRequest : ProcessDemoWrite(r)
    \/ \E r \in OneRequest : SaveMetadata(r)
    \/ \E r \in OneRequest : registerTempFile(r)
    \/ \E r \in OneRequest : registerMetadataFile(r)
    \/ \E r \in OneRequest : Respond(r)
    \/ cleanupExpiredFiles
    \/ cleanupExpiredDemos

SpecSweep == InitServer /\ [][NextSweep]_vars /\ WF_vars(cleanupExpiredFiles)

\* The names registerTempFile can be called with.
IndexNames ==
    {WavPath(s, DemoID(t)) : s \in Speakers, t \in 0..MaxTime}
        \cup {JsonPath(DemoID(t)) : t \in 0..MaxTime}

\* The entry of f is older than the TTL.
Overdue(f) == f \in DOMAIN tempFiles /\ now - tempFiles[f] > tempFileLifetime

\* C31: a pass of the sweep leaves no entry in the index that is older than
\* the TTL, and an entry older than the TTL is eventually gone from the index
\* (or registered anew).
C31_RegisteredEntryEventuallyEvicted ==
    /\ [][IsFileSweep => \A f \in DOMAIN tempFiles' : now' - tempFiles'[f] <= tempFileLifetime]_vars
    /\ \A f \in IndexNames : Overdue(f) ~> ~Overdue(f)

\* The files of a run were registered and, the TTL over, the index is empty.
C31_Witness ==
    /\ now > tempFileLifetime
    /\ DOMAIN tempFiles = {}
    /\ \E r \in Requests : reqs[r].pc = "done" /\ reqs[r].players # {}

\* The entry of f is at most as old as the TTL.
Young(f) == f \in DOMAIN tempFiles /\ now - tempFiles[f] <= tempFileLifetime

\* File f is in outputDir, as an audio file or as a metadata record.
InOutputDir(f, files, records) ==
    f \in files \/ \E m \in records : JsonPath(m.DemoID) = f

C33_ResliceWithinCapacity ==
    /\ pc = "append" =>
          (Len(o) + Len(pcm)) * FrameSamples(JobFunction(format))
              <= BufferCap(JobFunction(format), numPayloads)
    /\ pc # "panic"

\* Request q has called registerTempFile for the audio file f.
RegisteredBy(q, f) ==
    /\ reqs[q].pc \in {"registerJson", "respond", "done"}
    /\ f \in reqs[q].players

\* C34: when a handler has answered with the redirect, every audio file of
\* its run that is in outputDir has been registered in tempFiles by a
\* handler, also when saving the metadata failed.
C34_ArtifactsGetRegistered ==
    \A r \in Requests :
        (reqs[r].pc = "done" /\ reqs[r].response = "redirect") =>
            \A f \in outputFiles :
                ContainsDemoWav(f, reqs[r].demoID) =>
                    \E q \in Requests : RegisteredBy(q, f)

\* Request r is an upload between the creation of its temporary file and
\* its answer.
UploadInFlight(r) == reqs[r].kind = "upload" /\ reqs[r].pc \notin {"new", "done"}

\* C35: two uploads in flight never have the same temporary file, and an
\* upload parses the content it wrote itself, never the content another
\* request put under its path.
C35_UploadsUseOwnFile ==
    \A r \in Requests :
        UploadInFlight(r) =>
            /\ \A q \in Requests \ {r} :
                  UploadInFlight(q) => reqs[q].name # reqs[r].name
            /\ reqs[r].read \in {NoRequest, r}

\* ------------------------------------------------------------------------
\* The functions that work on file names, with names as strings of
\* characters: each action is one call on arguments drawn from small sets.
\* ------------------------------------------------------------------------
MaxDigits == 2
MaxDirFiles == 2

DigitChars == {"1", "2"}
DigitStrings == UNION {[1..n -> DigitChars] : n \in 1..MaxDigits}

DemoWord == <<"d", "e", "m", "o">>
WavSuffix == <<".", "w", "a", "v">>
JsonSuffix == <<".", "j", "s", "o", "n">>
ChatSuffix == <<"_", "c", "h", "a", "t", ".", "t", "x", "t">>

\* fmt.Sprintf("demo_%d", time.Now().UnixNano())
RunId(digits) == DemoWord \o <<"_">> \o digits
RunIds == {RunId(ds) : ds \in DigitStrings}

\* Steam ids of speakers, as decimal strings.
SteamIds == {<<"7">>, <<"7", "1">>}

\* fmt.Sprintf("%s_%s.wav", playerId, demoID)
ArtifactName(steamID, demoID) == steamID \o <<"_">> \o demoID \o WavSuffix
MetadataName(demoID) == demoID \o JsonSuffix
ChatName(demoID) == demoID \o ChatSuffix

\* strings.Index: the first position of sub in s, 0 when there is none.
Index(s, sub) ==
    LET at == {i \in 1..(Len(s) - Len(sub) + 1) : SubSeq(s, i, i + Len(sub) - 1) = sub}
    IN IF at = {} THEN 0 ELSE CHOOSE i \in at : \A j \in at : i <= j

\* strings.Contains
Contains(s, sub) == Index(s, sub) # 0

\* strings.Contains(file.Name(), "_"+demoID+".wav")
MatchesRun_anySuffix(name, demoID) == Contains(name, <<"_">> \o demoID)
MatchesRun(name, demoID) == Contains(name, <<"_">> \o demoID \o WavSuffix)

\* cleanupOldDemoFiles: the files of dir that are left.
cleanupOldDemoFiles(dir, demoID) ==
    {f \in dir : /\ f # MetadataName(demoID)
                 /\ ~MatchesRun(f, demoID)
                 /\ f # ChatName(demoID)}

\* SaveMetadata: the players found in dir; the steam id is the text before
\* "_"+demoID+".wav".
SaveMetadataPlayers(dir, demoID) ==
    {[SteamID |-> SubSeq(f, 1, Index(f, <<"_">> \o demoID \o WavSuffix) - 1),
      AudioFile |-> f] : f \in {g \in dir : MatchesRun(g, demoID)}}

\* The names found in outputDir, and the directories of up to MaxDirFiles files.
DirNames ==
    {ArtifactName(sp, id) : sp \in SteamIds, id \in RunIds}
        \cup {MetadataName(id) : id \in RunIds}
        \cup {ChatName(id) : id \in RunIds}

NameDirs == UNION {{{t[i] : i \in 1..k} : t \in [1..k -> DirNames]} : k \in 0..MaxDirFiles}

InitNames ==
    /\ DecoderIdle
    /\ RunIdle
    /\ ServerIdle
    /\ PoolIdle
    /\ StoreIdle
    /\ NamesIdle

cleanupOldDemoFilesCall ==
    /\ nameCall = NoNameCall
    /\ \E id \in RunIds, dir \in NameDirs :
         nameCall' = [NoNameCall EXCEPT !.fn = "cleanupOldDemoFiles", !.demoID = id,
                                        !.dir = dir,
                                        !.left = cleanupOldDemoFiles(dir, id)]
    /\ UNCHANGED <<decVars, runVars, lifeVars, poolVars, storeVars>>

SaveMetadataCall ==
    /\ nameCall = NoNameCall
    /\ \E id \in RunIds, dir \in NameDirs :
         nameCall' = [NoNameCall EXCEPT !.fn = "SaveMetadata", !.demoID = id,
                                        !.dir = dir,
                                        !.listed = SaveMetadataPlayers(dir, id)]
    /\ UNCHANGED <<decVars, runVars, lifeVars, poolVars, storeVars>>

\* strings.Split(s, sep) for a separator of one character.
Split(s, sep) ==
    LET seps == {i \in 1..Len(s) : s[i] = sep}
        n == Cardinality(seps) + 1
        pos(k) == IF k = 0 THEN 0
                  ELSE IF k = n THEN Len(s) + 1
                  ELSE CHOOSE i \in seps : Cardinality({j \in seps : j < i}) = k - 1
    IN [k \in 1..n |-> SubSeq(s, pos(k - 1) + 1, pos(k) - 1)]

\* strings.Join(parts, sep)
RECURSIVE Join(_, _)
Join(parts, sep) ==
    IF parts = <<>> THEN <<>>
    ELSE IF Len(parts) = 1 THEN parts[1]
    ELSE parts[1] \o <<sep>> \o Join(Tail(parts), sep)

\* strings.TrimSuffix
TrimSuffixChars_keep(s, suffix) == s
TrimSuffixChars(s, suffix) ==
    IF Len(s) >= Len(suffix) /\ SubSeq(s, Len(s) - Len(suffix) + 1, Len(s)) = suffix
    THEN SubSeq(s, 1, Len(s) - Len(suffix))
    ELSE s

\* extractDemoIDFromFilename, on a name as a string of characters.
extractDemoIDFromFilenameChars(filename) ==
    LET parts == Split(filename, "_")
        hits == {i \in 1..Len(parts) : parts[i] = DemoWord /\ i + 1 <= Len(parts)}
    IN IF Len(parts) >= 3 /\ hits # {}
       THEN LET i == CHOOSE j \in hits : \A k \in hits : j <= k
            IN DemoWord \o <<"_">> \o parts[i + 1]
       ELSE <<>>

\* Names without a "demo" part, next to those of outputDir.
OtherNames == {<<"7">> \o WavSuffix, <<"7", "_", "1">> \o WavSuffix,
               <<"7", "_", "1", "_", "2">> \o WavSuffix}

extractDemoIDFromFilenameCall ==
    /\ nameCall = NoNameCall
    /\ \E f \in DirNames \cup OtherNames :
         nameCall' = [NoNameCall EXCEPT !.fn = "extractDemoIDFromFilename",
                                        !.filename = f,
                                        !.result = extractDemoIDFromFilenameChars(f)]
    /\ UNCHANGED <<decVars, runVars, lifeVars, poolVars, storeVars>>

\* Number of hyphen-separated parts of a match identifier: "1" and a UUID.
MatchIDParts == 6

\* ExtractMatchIDFromFilename, on a name as a string of characters.
ExtractMatchIDFromFilenameChars(filename) ==
    LET name == TrimSuffixChars(TrimSuffixChars(filename, <<".", "d", "e", "m", ".", "z", "s", "t">>),
                                <<".", "d", "e", "m">>)
        parts == Split(name, "-")
    IN IF Len(parts) >= MatchIDParts
       THEN Join(SubSeq(parts, 1, MatchIDParts), "-")
       ELSE <<>>

\* Uploaded file names: up to MaxNameParts parts joined by hyphens, and a suffix.
MaxNameParts == 8
PartChars == {"1", "a"}
NamePartLists == UNION {[1..n -> {<<c>> : c \in PartChars}] : n \in 1..MaxNameParts}
NameSuffixes == {<<>>, <<".", "d", "e", "m">>, <<".", "d", "e", "m", ".", "z", "s", "t">>,
                 <<".", "z", "s", "t">>}

ExtractMatchIDFromFilenameCall ==
    /\ nameCall = NoNameCall
    /\ \E parts \in NamePartLists, suffix \in NameSuffixes :
         LET f == Join(parts, "-") \o suffix
         IN nameCall' = [NoNameCall EXCEPT !.fn = "ExtractMatchIDFromFilename",
                                           !.filename = f, !.parts = parts,
                                           !.suffix = suffix,
                                           !.result = ExtractMatchIDFromFilenameChars(f)]
    /\ UNCHANGED <<decVars, runVars, lifeVars, poolVars, storeVars>>

NextNames ==
    \/ cleanupOldDemoFilesCall
    \/ SaveMetadataCall
    \/ extractDemoIDFromFilenameCall
    \/ ExtractMatchIDFromFilenameCall

SpecNames == InitNames /\ [][NextNames]_vars

\* The audio files of run id.
ArtifactsOfRun(id) == {ArtifactName(sp, id) : sp \in SteamIds}

\* C36: cleanupOldDemoFiles of run R removes all audio files named
\* <speaker>_<R>.wav and R's metadata record, and nothing but files of R;
\* SaveMetadata of run R lists exactly the audio files <speaker>_<R>.wav of
\* the directory, each under its speaker; so no file of another run
\* demo_<digits> is deleted or listed.
C36_ArtifactsIsolatedPerRun ==
    /\ nameCall.fn = "cleanupOldDemoFiles" =>
          /\ nameCall.dir \ nameCall.left
                = nameCall.dir \cap (ArtifactsOfRun(nameCall.demoID)
                                       \cup {MetadataName(nameCall.demoID),
                                             ChatName(nameCall.demoID)})
          /\ nameCall.left \subseteq nameCall.dir
    /\ nameCall.fn = "SaveMetadata" =>
          /\ {p.AudioFile : p \in nameCall.listed}
                = nameCall.dir \cap ArtifactsOfRun(nameCall.demoID)
          /\ \A p \in nameCall.listed :
                p.AudioFile = ArtifactName(p.SteamID, nameCall.demoID)

\* Run demo_1 cleans a directory holding 7_demo_1.wav and 7_demo_12.wav:
\* the file of run demo_12 is left.
C36_Witness ==
    /\ nameCall.fn = "cleanupOldDemoFiles"
    /\ nameCall.demoID = RunId(<<"1">>)
    /\ nameCall.dir = {ArtifactName(<<"7">>, RunId(<<"1">>)),
                       ArtifactName(<<"7">>, RunId(<<"1", "2">>))}
    /\ nameCall.left = {ArtifactName(<<"7">>, RunId(<<"1", "2">>))}

\* C37: once a download-from-URL run has answered with the redirect, the
\* metadata record stored for it holds the match identifier that was
\* requested.
C37_DownloadRecordHoldsMatchID ==
    \A r \in Requests :
        (reqs[r].kind = "download" /\ reqs[r].pc = "done"
            /\ reqs[r].response = "redirect") =>
            \A m \in metadataFiles :
                (m.DemoID = reqs[r].demoID /\ m.Filename = reqs[r].name)
                    => m.MatchID = reqs[r].matchID

\* The name has a part "demo", between underscores, with a part after it.
HasDemoPart(filename) ==
    \E i \in 1..(Len(Split(filename, "_")) - 1) : Split(filename, "_")[i] = DemoWord

\* C38: for an artifact name <steamid>_demo_<timestamp>.wav,
\* extractDemoIDFromFilename returns demo_<timestamp>, the identifier whose
\* metadata file is <id>.json; for a name with no "demo" part followed by
\* another part it returns the empty string.
C38_ExtractsRunIdOfArtifact ==
    nameCall.fn = "extractDemoIDFromFilename" =>
        /\ \A sp \in SteamIds, id \in RunIds :
              nameCall.filename = ArtifactName(sp, id) => nameCall.result = id
        /\ ~HasDemoPart(nameCall.filename) => nameCall.result = <<>>

\* The hyphen-separated parts of the name the call was made with, once a
\* ".dem.zst" or ".dem" suffix is removed: any other suffix belongs to the
\* last part.
PartsAfterSuffix ==
    IF nameCall.suffix \in {<<".", "d", "e", "m">>,
                            <<".", "d", "e", "m", ".", "z", "s", "t">>}
    THEN nameCall.parts
    ELSE [nameCall.parts EXCEPT ![Len(nameCall.parts)] = @ \o nameCall.suffix]

\* The result is the first six of these parts, with hyphens between them.
ResultIsFirstSixParts ==
    LET ps == PartsAfterSuffix
    IN nameCall.result
          = ps[1] \o <<"-">> \o ps[2] \o <<"-">> \o ps[3] \o <<"-">> \o ps[4]
              \o <<"-">> \o ps[5] \o <<"-">> \o ps[6]

\* C39: ExtractMatchIDFromFilename returns the first six hyphen-separated
\* parts of the name without its ".dem.zst" or ".dem" suffix, joined by
\* hyphens, when there are at least six parts, and the empty string
\* otherwise.
C39_MatchIDIsFirstSixParts ==
    nameCall.fn = "ExtractMatchIDFromFilename" =>
        IF Len(nameCall.parts) >= 6
        THEN ResultIsFirstSixParts
        ELSE nameCall.result = <<>>

\* 1-<uuid>-1-1.dem, with the UUID a-a-a-a-a, gives 1-<uuid>.
C39_Witness ==
    /\ nameCall.fn = "ExtractMatchIDFromFilename"
    /\ nameCall.filename = <<"1", "-", "a", "-", "a", "-", "a", "-", "a", "-", "a", "-",
                             "1", "-", "1", ".", "d", "e", "m">>
    /\ nameCall.result = <<"1", "-", "a", "-", "a", "-", "a", "-", "a", "-", "a">>

====
